---- MODULE Spec2Model ----
(***************************************************************************)
(* Ad-session state machine, currency ledger and job pipeline of           *)
(* atool-backend.                                                          *)
(*                                                                         *)
(* The row store (tables ad_sessions, ad_completions, user_coins,          *)
(* coin_transactions, jobs and the deployment registry) is the shared      *)
(* state.  Every HTTP request or ledger call is served by a handler        *)
(* thread; a handler takes one step per row store round trip, so that two  *)
(* handlers interleave exactly where the Python code can be preempted      *)
(* between two store calls.  A step that only reads and answers (a         *)
(* refusal) is a single step.                                              *)
(*                                                                         *)
(* The dispatcher (job_worker_realtime.py) is a second process: its main   *)
(* thread scans the backlog and then listens to the change feed, and each  *)
(* event of a pending row spawns a thread.  A dispatcher thread takes one  *)
(* step per request it sends (backend, inference endpoint, media store,    *)
(* registry).                                                              *)
(*                                                                         *)
(* Some pieces are modelled on their own, each in one variable: the SSE    *)
(* handler of GET /jobs/<id>/stream with its sink in the fan-out hub, the  *)
(* account pool of the media manager (cloudinary_manager.py) with its      *)
(* upload call, the retry loop around the inference request of a job, the  *)
(* choice of a handler for a job at each entry point of the dispatcher,    *)
(* and the path from the inference response of an image job to its row.    *)
(* The url manager of the dispatcher is one object shared by its threads;  *)
(* its current deployment is the variable manager.                         *)
(*                                                                         *)
(* The steps named ...Fault are the calls of the row store that raise or   *)
(* fail; they belong to specifications of their own.                       *)
(***************************************************************************)
EXTENDS Integers, Sequences, FiniteSets, TLC

\* ------------------------------------------------------------------ bounds
MaxReq == 4        \* requests served in one behaviour
MaxJobs == 2       \* rows of the jobs table
MaxPool == 2       \* accounts of the media store

\* ------------------------------------------------------- program constants
GENERATION_COST == 5
AD_REWARD == 5
MAX_ADS_PER_DAY == 50
max_retries == 3
image_max_retries == 3
BANDWIDTH_THRESHOLD == 20        \* GiB
STORAGE_THRESHOLD_PERCENT == 95

Users == {"u1", "u2"}
Procs == {1, 2}
NoAd == <<"none", 0>>
AdIds == {<<"ad", 1>>}
ClickId(i) == <<"click", i>>
AdminDeltas == {0 - 3, 7}
Zones == {"none", "known", "unknown"}
Signatures == {"none", "valid", "forged"}
PostbackStatuses == {"completed", "failed"}
SecretConfigured == TRUE
Deployments == {1, 2}
Tasks == 0..MaxJobs
Streams == {1}
Terminal == {"completed", "failed", "cancelled"}

VARIABLES
    sessions,     \* ad_sessions: sequence of rows, the id of a row is its index
    completions,  \* ad_completions: sequence of rows, the id of a row is its index
    wallet,       \* user_coins: one row per user, lazily created
    txlog,        \* coin_transactions: append-only
    proc,         \* handler threads: position, locals and last response
    served,       \* requests accepted so far
    jobs,         \* jobs: sequence of rows, the id of a row is its index
    events,       \* change-feed notifications of jobs not yet delivered
    task,         \* dispatcher threads: position and locals
    registry,     \* modal_deployments: one row per deployment
    cache,        \* the HTTP process's cached_url and cache_invalidation_flag
    streams,      \* the SSE handlers of GET /jobs/<id>/stream and their sinks
    media,        \* the CloudinaryManager: account pool, current account, upload call
    infer,        \* the inference request of one job: type, attempt, last response
    route,        \* the routing of one job: declared type, model, entry point, handler
    finish,       \* the tail of process_image_job: response, upload, completion request
    manager       \* the dispatcher's url-manager singleton: the deployment it holds as current

vars == <<sessions, completions, wallet, txlog, proc, served,
          jobs, events, task, registry, cache, streams, media, infer, route, finish, manager>>

\* the state of the job pipeline: jobs table, dispatcher, registry, URL cache
dispatch == <<jobs, events, task, registry, cache, streams, media, infer, route, finish, manager>>

\* the part of it that the job endpoints of the HTTP process leave alone
side == <<streams, media, infer, route, finish, manager>>

\* ------------------------------------------------------------ handler state
Idle(op, result) ==
    [pc |-> "idle", op |-> op, result |-> result,
     user |-> "none", sid |-> 0, pstatus |-> "none", puser |-> "none",
     click |-> NoAd, zone |-> "none", sig |-> "none",
     amount |-> 0, source |-> "none", desc |-> "none", ad |-> NoAd,
     cur |-> 0, lt |-> 0, cid |-> 0, attempt |-> 0, pre |-> 0, body |-> 0,
     job_type |-> "none", url_type |-> "none"]

\* a request is taken by the first free handler thread
CanBegin(p) ==
    /\ served < MaxReq
    /\ proc[p].pc = "idle"
    /\ \A q \in Procs : q < p => proc[q].pc # "idle"

\* the locals of handler p as it starts serving a request
Fresh(op) == Idle(op, "none")

\* the handler p answers and returns to idle
Respond(p, result) ==
    proc' = [proc EXCEPT ![p] = Idle("none", result)]

\* the same, with the number the response body carries
RespondWith(p, result, body) ==
    proc' = [proc EXCEPT ![p] = [Idle("none", result) EXCEPT !.body = body]]

\* a dispatcher thread that is not running
NoTask == [pc |-> "off", job |-> 0, dep |-> 0, todo |-> <<>>, url |-> FALSE]

\* an SSE handler that has not been requested.  queue is the handler's
\* client_queue, sent the events written to the client; due lists the status
\* values written to the job's row since the handler read the row, and
\* unsubscribed counts the calls of unsubscribe_from_job
NoStream == [pc |-> "off", job |-> 0, queue |-> <<>>, sent |-> <<>>,
             due |-> <<>>, unsubscribed |-> 0]

\* realtime_manager, the callback of the shared change feed: the new row of a
\* job whose status changed is put on the queue of every sink subscribed to
\* the job (client_queue holds 100 payloads, more than one job produces)
Broadcast(rows) ==
    [s \in Streams |->
        LET st == streams[s]
        IN IF st.job \in DOMAIN jobs /\ rows[st.job].status # jobs[st.job].status
           THEN [st EXCEPT
                   !.due = IF st.pc \in {"accepted", "open"}
                           THEN Append(@, rows[st.job].status) ELSE @,
                   !.queue = IF st.pc = "open"
                             THEN Append(@, rows[st.job].status) ELSE @]
           ELSE st]

\* what GET /usage of an account answers: no answer (the probe fails), or the
\* bandwidth used in GiB, whether bandwidth is unlimited, and the storage
\* used in percent of its limit (storage is never unlimited here)
Probes ==
    {[ok |-> FALSE, bandwidth_used |-> 0, bandwidth_unlimited |-> FALSE, storage_percent |-> 0]}
    \cup [ok : {TRUE}, bandwidth_used : {19, 20}, bandwidth_unlimited : BOOLEAN,
          storage_percent : {0}]
    \cup {[ok |-> TRUE, bandwidth_used |-> 21, bandwidth_unlimited |-> FALSE, storage_percent |-> 0],
          [ok |-> TRUE, bandwidth_used |-> 19, bandwidth_unlimited |-> FALSE, storage_percent |-> 95]}

\* the url manager before any deployment was fetched
NoManager == [current_deployment_id |-> 0]

\* the empty cache of get_url.  A cached url is the url of one endpoint of one
\* deployment: cached_url is the deployment, cached_type the job type the
\* endpoint serves
NoCache == [cached_url |-> 0, cached_type |-> "none",
            cache_invalidation_flag |-> FALSE]

\* no job routed yet.  job_type is the declared type of the row ("none": the
\* field is missing), model its model name as a sequence of characters
NoRoute == [job_type |-> "image", model |-> <<>>, entry |-> "none",
            handler |-> "none"]

\* process_image_job has not received the endpoint's response yet.  link is
\* cloudinary_link, temp whether the response carries a temporary url, sent
\* the image_url of the completion request, row the job's row; uploaded
\* records that an upload to the media store produced link, download and
\* upload what the two requests of the worker came back with
NoFinish == [pc |-> "idle", content |-> "none", temp |-> FALSE, link |-> "none",
             uploaded |-> FALSE, sent |-> "none",
             download |-> "none", upload |-> "none",
             row |-> [status |-> "running", image_url |-> "none",
                      thumbnail_url |-> "none"]]

\* no inference request under way.  posts counts the POSTs to the endpoint's
\* /generate made for the job, last is what the latest one came back with
NoInfer == [pc |-> "idle", job_type |-> "image", attempt |-> 0, posts |-> 0,
            last |-> "none"]

\* CloudinaryManager.__init__ with one account, no upload under way.  used
\* is the set of accounts an upload was attempted on during the call, and
\* uploads the number of those attempts
NoMedia ==
    [accounts |-> 1,
     usage |-> [a \in {0} |-> [ok |-> TRUE, bandwidth_used |-> 19,
                               bandwidth_unlimited |-> FALSE, storage_percent |-> 0]],
     current_account_index |-> 0, pc |-> "idle", attempt |-> 0,
     used |-> {}, uploads |-> 0]

NoWallet == [exists |-> FALSE, balance |-> 0, lifetime_earned |-> 0, lifetime_spent |-> 0]

Init ==
    /\ sessions = <<>>
    /\ completions = <<>>
    /\ wallet = [u \in Users |-> NoWallet]
    /\ txlog = <<>>
    /\ proc = [p \in Procs |-> Idle("none", "none")]
    /\ served = 0
    /\ jobs = <<>>
    /\ events = {}
    /\ task = [t \in Tasks |-> NoTask]
    /\ registry = [d \in Deployments |-> [is_active |-> d = 1, deactivated_at |-> FALSE]]
    /\ cache = NoCache
    /\ streams = [s \in Streams |-> NoStream]
    /\ media = NoMedia
    /\ infer = NoInfer
    /\ route = NoRoute
    /\ finish = NoFinish
    /\ manager = NoManager

\* ---------------------------------------------------------------- ledger
\* coins.get_coin_balance: the balance of the row, 0 when there is no row
get_coin_balance(w) == IF w.exists THEN w.balance ELSE 0

\* coins.initialize_user_wallet, called by get_coin_balance on a miss: a row
\* with balance 0 (user_id is unique, an insert on an existing row is refused)
initialize_user_wallet(w) ==
    IF w.exists THEN w
    ELSE [exists |-> TRUE, balance |-> 0, lifetime_earned |-> 0, lifetime_spent |-> 0]

\* coins.log_transaction: the row appended to coin_transactions
log_transaction(user, type, delta, after, ref, session, desc) ==
    Append(txlog, [user |-> user, type |-> type, coins_delta |-> delta,
                   balance_after |-> after, reference_id |-> ref,
                   session |-> session, desc |-> desc])

\* deduct_coins: "if current_balance < coins_amount: return False"
HasSufficientNoCheck(cur, n) == TRUE
HasSufficient(cur, n) == ~(cur < n)

\* deduct_coins: new_balance = current_balance - coins_amount
DeductNewBalance(cur, n) == cur - n

\* award_coins: new_balance = current_balance + coins_amount
AwardNewBalanceTwice(cur, n) == cur + n + n
AwardNewBalance(cur, n) == cur + n

\* award_coins, first store call: get_coin_balance (select, insert on a miss)
AwardBalanceStep(p, r) ==
    /\ wallet' = [wallet EXCEPT ![r.user] = initialize_user_wallet(@)]
    /\ proc' = [proc EXCEPT ![p] =
                   [r EXCEPT !.pc = "aw_earned",
                             !.cur = get_coin_balance(wallet[r.user])]]

AwardBalance(p) ==
    /\ proc[p].pc = "aw_balance"
    /\ AwardBalanceStep(p, proc[p])
    /\ UNCHANGED dispatch
    /\ UNCHANGED <<sessions, completions, txlog, served>>

\* award_coins, second store call: select lifetime_earned
AwardEarned(p) ==
    /\ proc[p].pc = "aw_earned"
    /\ proc' = [proc EXCEPT ![p].pc = "aw_update",
                            ![p].lt = IF wallet[proc[p].user].exists
                                      THEN wallet[proc[p].user].lifetime_earned
                                      ELSE 0]
    /\ UNCHANGED dispatch
    /\ UNCHANGED <<sessions, completions, wallet, txlog, served>>

\* award_coins, third store call: update user_coins where user_id = user
AwardUpdate(p) ==
    /\ proc[p].pc = "aw_update"
    /\ wallet' = [wallet EXCEPT ![proc[p].user] =
                     IF @.exists
                     THEN [@ EXCEPT !.balance = AwardNewBalance(proc[p].cur, proc[p].amount),
                                    !.lifetime_earned = proc[p].lt + proc[p].amount]
                     ELSE @]
    /\ proc' = [proc EXCEPT ![p].pc = "aw_log"]
    /\ UNCHANGED dispatch
    /\ UNCHANGED <<sessions, completions, txlog, served>>

\* award_coins, last store call: log_transaction; the endpoints then read
\* get_coin_stats for the body of their 200 response
AwardLog(p) ==
    /\ proc[p].pc = "aw_log"
    /\ txlog' = log_transaction(proc[p].user, proc[p].source, proc[p].amount,
                                AwardNewBalance(proc[p].cur, proc[p].amount),
                                proc[p].cid, proc[p].sid, proc[p].desc)
    /\ Respond(p, IF proc[p].op \in {"claim", "verify", "reward"}
                  THEN "200_rewarded" ELSE "true")
    /\ UNCHANGED dispatch
    /\ UNCHANGED <<sessions, completions, wallet, served>>

\* deduct_coins, first store call: get_coin_balance, then the balance check
DeductBalanceStep(p, r) ==
    /\ wallet' = [wallet EXCEPT ![r.user] = initialize_user_wallet(@)]
    /\ proc' = [proc EXCEPT ![p] =
                   IF HasSufficient(get_coin_balance(wallet[r.user]), r.amount)
                   THEN [r EXCEPT !.pc = "de_spent",
                                  !.cur = get_coin_balance(wallet[r.user])]
                   ELSE IF r.op = "jobs"
                   THEN [Idle("none", "201_created") EXCEPT !.body = r.cid]
                   ELSE Idle("none", "false")]

\* deduct_coins, second store call: select lifetime_spent
DeductSpent(p) ==
    /\ proc[p].pc = "de_spent"
    /\ proc' = [proc EXCEPT ![p].pc = "de_update",
                            ![p].lt = wallet[proc[p].user].lifetime_spent]
    /\ UNCHANGED dispatch
    /\ UNCHANGED <<sessions, completions, wallet, txlog, served>>

\* deduct_coins, third store call: update user_coins where user_id = user
DeductUpdate(p) ==
    /\ proc[p].pc = "de_update"
    /\ wallet' = [wallet EXCEPT ![proc[p].user] =
                     IF @.exists
                     THEN [@ EXCEPT !.balance = DeductNewBalance(proc[p].cur, proc[p].amount),
                                    !.lifetime_spent = proc[p].lt + proc[p].amount]
                     ELSE @]
    /\ proc' = [proc EXCEPT ![p].pc = "de_log"]
    /\ UNCHANGED dispatch
    /\ UNCHANGED <<sessions, completions, txlog, served>>

\* deduct_coins, last store call: log_transaction
DeductLog(p) ==
    /\ proc[p].pc = "de_log"
    /\ txlog' = log_transaction(proc[p].user, "generation_used", 0 - proc[p].amount,
                                DeductNewBalance(proc[p].cur, proc[p].amount),
                                proc[p].cid, 0, proc[p].desc)
    /\ IF proc[p].op = "jobs"
       THEN RespondWith(p, "201_created", proc[p].cid)
       ELSE Respond(p, "true")
    /\ UNCHANGED dispatch
    /\ UNCHANGED <<sessions, completions, wallet, served>>

\* jobs_create: deduct_coins(user, GENERATION_COST, reference_id = job id)
Deduct(p) ==
    /\ CanBegin(p)
    /\ \E u \in Users :
          DeductBalanceStep(p, [Fresh("deduct") EXCEPT
                                   !.user = u, !.amount = GENERATION_COST,
                                   !.desc = "generation"])
    /\ UNCHANGED dispatch
    /\ UNCHANGED <<sessions, completions, txlog>>
    /\ served' = served + 1

\* admin_adjust_balance: award_coins(admin_bonus) when coins_delta > 0, else
\* deduct_coins(abs(coins_delta)); the reason is the transaction's description
AdminAdjust(p) ==
    /\ CanBegin(p)
    /\ \E u \in Users, delta \in AdminDeltas :
          IF delta > 0
          THEN AwardBalanceStep(p, [Fresh("admin") EXCEPT
                                       !.user = u, !.amount = delta,
                                       !.source = "admin_bonus", !.desc = "admin"])
          ELSE DeductBalanceStep(p, [Fresh("admin") EXCEPT
                                        !.user = u, !.amount = 0 - delta,
                                        !.desc = "admin"])
    /\ UNCHANGED dispatch
    /\ UNCHANGED <<sessions, completions, txlog>>
    /\ served' = served + 1

\* ------------------------------------------------- ledger, storage errors
\* deduct_coins when get_coin_balance's select raises: get_coin_balance returns
\* None and deduct_coins returns False ("Could not fetch balance")
DeductReadFault(p) ==
    /\ CanBegin(p)
    /\ proc' = [proc EXCEPT ![p] = Idle("storage_error", "false")]
    /\ served' = served + 1
    /\ UNCHANGED dispatch
    /\ UNCHANGED <<sessions, completions, wallet, txlog>>

\* deduct_coins when the select of lifetime_spent raises: caught by the outer
\* except, return False
DeductSpentFault(p) ==
    /\ proc[p].pc = "de_spent"
    /\ proc' = [proc EXCEPT ![p] = Idle("storage_error", "false")]
    /\ UNCHANGED dispatch
    /\ UNCHANGED <<sessions, completions, wallet, txlog, served>>

\* deduct_coins when the update of user_coins raises: return False
DeductUpdateFault(p) ==
    /\ proc[p].pc = "de_update"
    /\ proc' = [proc EXCEPT ![p] = Idle("storage_error", "false")]
    /\ UNCHANGED dispatch
    /\ UNCHANGED <<sessions, completions, wallet, txlog, served>>

\* deduct_coins when the insert into coin_transactions raises: log_transaction
\* catches the exception and returns False, deduct_coins does not look at
\* that value and returns True
DeductLogFault(p) ==
    /\ proc[p].pc = "de_log"
    /\ proc' = [proc EXCEPT ![p] = Idle("storage_error", "true")]
    /\ UNCHANGED dispatch
    /\ UNCHANGED <<sessions, completions, wallet, txlog, served>>

\* ---------------------------------------------- claim, storage errors
\* record_ad_completion when the insert raises: it returns None, and the
\* claim goes on to award_coins with reference_id = None
ClaimRecordFault(p) ==
    /\ proc[p].pc = "cl_record"
    /\ proc' = [proc EXCEPT ![p].pc = "aw_balance", ![p].cid = 0,
                            ![p].amount = AD_REWARD, ![p].source = "ad_watched",
                            ![p].desc = "ad"]
    /\ UNCHANGED dispatch
    /\ UNCHANGED <<sessions, completions, wallet, txlog, served>>

\* what the caller of award_coins answers when it returned False: the claim
\* endpoints answer 500 ("Failed to award coins")
AwardFailed(p) ==
    Respond(p, IF proc[p].op \in {"claim", "verify", "reward"}
               THEN "500_award_failed" ELSE "false")

\* award_coins when get_coin_balance's select raises: get_coin_balance
\* returns None and award_coins returns False
AwardReadFault(p) ==
    /\ proc[p].pc = "aw_balance"
    /\ AwardFailed(p)
    /\ UNCHANGED dispatch
    /\ UNCHANGED <<sessions, completions, wallet, txlog, served>>

\* award_coins when the select of lifetime_earned raises: return False
AwardEarnedFault(p) ==
    /\ proc[p].pc = "aw_earned"
    /\ AwardFailed(p)
    /\ UNCHANGED dispatch
    /\ UNCHANGED <<sessions, completions, wallet, txlog, served>>

\* award_coins when the update of user_coins raises: return False
AwardUpdateFault(p) ==
    /\ proc[p].pc = "aw_update"
    /\ AwardFailed(p)
    /\ UNCHANGED dispatch
    /\ UNCHANGED <<sessions, completions, wallet, txlog, served>>

\* ------------------------------------------------------------ POST /jobs
\* coins.has_sufficient_coins: balance is not None and balance >= required
has_sufficient_coins(balance, required) == balance >= required

\* coins.get_coins_needed: max(0, required - balance)
get_coins_neededFlat(balance, required) == required
get_coins_needed(balance, required) ==
    IF required - balance > 0 THEN required - balance ELSE 0

\* jobs.create_job: the row inserted into jobs, status pending, no output yet
create_job(u) == [user |-> u, status |-> "pending", has_url |-> FALSE]

\* the dispatcher's change-feed subscription is open
Subscribed == task[0].pc = "listening"

\* jobs_create: has_sufficient_coins reads the balance (get_coin_balance
\* creates the wallet row on a miss); with enough coins the handler goes on
\* to create the job, otherwise to build the 402 response
JobsCreate(p) ==
    /\ CanBegin(p)
    /\ Len(jobs) + Cardinality({q \in Procs : proc[q].pc = "jc_insert"}) < MaxJobs
    /\ \E u \in Users :
          /\ wallet' = [wallet EXCEPT ![u] = initialize_user_wallet(@)]
          /\ proc' = [proc EXCEPT ![p] =
                         [Fresh("jobs") EXCEPT
                             !.user = u,
                             !.amount = GENERATION_COST,
                             !.desc = "generation",
                             !.pc = IF has_sufficient_coins(get_coin_balance(wallet[u]),
                                                            GENERATION_COST)
                                    THEN "jc_insert" ELSE "jc_balance"]]
    /\ served' = served + 1
    /\ UNCHANGED dispatch
    /\ UNCHANGED <<sessions, completions, txlog>>

\* jobs_create, refusal: balance = coins.get_coin_balance(user_id)
JobsBalance(p) ==
    /\ proc[p].pc = "jc_balance"
    /\ proc' = [proc EXCEPT ![p].pc = "jc_needed",
                            ![p].cur = get_coin_balance(wallet[proc[p].user])]
    /\ UNCHANGED dispatch
    /\ UNCHANGED <<sessions, completions, wallet, txlog, served>>

\* jobs_create, refusal: coins_needed = coins.get_coins_needed(user_id, 5),
\* then 402 insufficient_coins
JobsNeeded(p) ==
    /\ proc[p].pc = "jc_needed"
    /\ RespondWith(p, "402_insufficient_coins",
                   get_coins_needed(get_coin_balance(wallet[proc[p].user]),
                                    GENERATION_COST))
    /\ UNCHANGED dispatch
    /\ UNCHANGED <<sessions, completions, wallet, txlog, served>>

\* jobs_create: create_job inserts the row; the change feed notifies the
\* dispatcher when it is subscribed
JobsInsert(p) ==
    /\ proc[p].pc = "jc_insert"
    /\ jobs' = Append(jobs, create_job(proc[p].user))
    /\ events' = IF Subscribed THEN events \cup {Len(jobs) + 1} ELSE events
    /\ proc' = [proc EXCEPT ![p].pc = "jc_deduct", ![p].cid = Len(jobs) + 1]
    /\ UNCHANGED <<task, registry, cache>>
    /\ UNCHANGED <<sessions, completions, wallet, txlog, served>>
    /\ UNCHANGED side

\* jobs_create: deduct_coins(user, GENERATION_COST, reference_id = job id),
\* its first store call; whatever deduct_coins returns, the answer is 201
JobsDeduct(p) ==
    /\ proc[p].pc = "jc_deduct"
    /\ DeductBalanceStep(p, proc[p])
    /\ UNCHANGED dispatch
    /\ UNCHANGED <<sessions, completions, txlog, served>>

\* ------------------------------------------- POST /jobs, storage errors
\* jobs_create when the select of has_sufficient_coins raises:
\* get_coin_balance returns None, has_sufficient_coins False, and the handler
\* goes on to build the 402 response
JobsCreateFault(p) ==
    /\ CanBegin(p)
    /\ \E u \in Users :
          proc' = [proc EXCEPT ![p] =
                      [Fresh("jobs") EXCEPT !.user = u,
                                            !.amount = GENERATION_COST,
                                            !.desc = "unreachable",
                                            !.pc = "jc_balance"]]
    /\ served' = served + 1
    /\ UNCHANGED dispatch
    /\ UNCHANGED <<sessions, completions, wallet, txlog>>

\* jobs_create, refusal, when the select of get_coin_balance raises: balance
\* is None
JobsBalanceFault(p) ==
    /\ proc[p].pc = "jc_balance"
    /\ proc' = [proc EXCEPT ![p].pc = "jc_needed"]
    /\ UNCHANGED dispatch
    /\ UNCHANGED <<sessions, completions, wallet, txlog, served>>

\* jobs_create, refusal, when the select of get_coins_needed raises: it
\* returns required_coins, and the answer is 402 insufficient_coins
JobsNeededFault(p) ==
    /\ proc[p].pc = "jc_needed"
    /\ RespondWith(p, "402_insufficient_coins", GENERATION_COST)
    /\ UNCHANGED dispatch
    /\ UNCHANGED <<sessions, completions, wallet, txlog, served>>

\* ------------------------------------------------------------ ad sessions
\* monetag_api.verify_monetag_signature: the signature is checked against the
\* shared secret when one is configured, and accepted otherwise
verify_monetag_signature(sig) == IF SecretConfigured THEN sig = "valid" ELSE TRUE

\* monetag_api.validate_zone_id: the zone is one of the recognised zones
validate_zone_id(zone) == zone = "known"

\* coins.check_daily_ad_limit: rows of ad_completions of the user with
\* watched_at >= today, counted against max_ads
check_daily_ad_limit(u) ==
    Cardinality({i \in DOMAIN completions :
                    completions[i].user = u /\ completions[i].watched})
        >= MAX_ADS_PER_DAY

\* coins.check_duplicate_ad: a row of the user for this ad inside the window
check_duplicate_ad(u, ad, recent) ==
    recent /\ \E i \in DOMAIN completions :
                  /\ completions[i].user = u
                  /\ completions[i].ad_network_id = ad
                  /\ completions[i].watched

\* coins.record_ad_completion: the row inserted into ad_completions
record_ad_completion(u, ad, sid) ==
    Append(completions, [user |-> u, ad_network_id |-> ad, session |-> sid,
                         watched |-> TRUE])

\* start_ad_session: the daily limit check, then (next step) the insert
StartSession(p) ==
    /\ CanBegin(p)
    /\ \E u \in Users :
          proc' = [proc EXCEPT ![p] =
                      IF check_daily_ad_limit(u)
                      THEN Idle("none", "402_daily_limit_reached")
                      ELSE [Fresh("start") EXCEPT
                               !.pc = "ss_insert", !.user = u]]
    /\ UNCHANGED dispatch
    /\ UNCHANGED <<sessions, completions, wallet, txlog>>
    /\ served' = served + 1

\* start_ad_session: insert into ad_sessions, status pending, not verified;
\* the click id is a fresh token, here the row's index
StartSessionInsert(p) ==
    /\ proc[p].pc = "ss_insert"
    /\ sessions' = Append(sessions, [user |-> proc[p].user,
                                     monetag_click_id |-> ClickId(Len(sessions) + 1),
                                     status |-> "pending",
                                     monetag_verified |-> FALSE])
    /\ Respond(p, "200_session")
    /\ UNCHANGED dispatch
    /\ UNCHANGED <<completions, wallet, txlog, served>>

\* monetag_postback: what the request is answered with before any store call
\* ("ok" when it goes on to the session lookup)
PostbackValidate(present, zone, sig) ==
    IF ~present THEN "400_missing_click_id"
    ELSE IF sig # "none" /\ ~verify_monetag_signature(sig) THEN "403_invalid_signature"
    ELSE IF zone # "none" /\ ~validate_zone_id(zone) THEN "400_invalid_zone_id"
    ELSE "ok"

\* monetag_postback: update_data applied to the session row
PostbackUpdateData(row, status) ==
    [row EXCEPT !.monetag_verified = TRUE,
                !.status = IF status # "completed" THEN "failed" ELSE @]

\* the rows of ad_sessions a select by monetag_click_id returns
SessionsByClick(click) ==
    {i \in DOMAIN sessions : sessions[i].monetag_click_id = click}

\* monetag_postback: validation and the select by monetag_click_id
\* (ClickId(0) is a click id no session carries)
PostbackReceive(p) ==
    /\ CanBegin(p)
    /\ \E present \in BOOLEAN, zone \in Zones, sig \in Signatures :
          IF PostbackValidate(present, zone, sig) # "ok"
          THEN Respond(p, PostbackValidate(present, zone, sig))
          ELSE \E i \in 0..Len(sessions), status \in PostbackStatuses :
                  IF SessionsByClick(ClickId(i)) # {}
                  THEN proc' = [proc EXCEPT ![p] =
                                   [Fresh("postback") EXCEPT
                                       !.pc = "pb_update", !.click = ClickId(i),
                                       !.pstatus = status, !.zone = zone, !.sig = sig]]
                  ELSE proc' = [proc EXCEPT ![p] =
                                   [Fresh("postback") EXCEPT
                                       !.pc = "pb_insert", !.click = ClickId(i),
                                       !.pstatus = status]]
    /\ UNCHANGED dispatch
    /\ UNCHANGED <<sessions, completions, wallet, txlog>>
    /\ served' = served + 1

\* monetag_postback: update ad_sessions where monetag_click_id = click_id
PostbackUpdateAwarding(p) ==
    /\ proc[p].pc = "pb_update"
    /\ sessions' = [i \in DOMAIN sessions |->
                       IF sessions[i].monetag_click_id = proc[p].click
                       THEN PostbackUpdateData(sessions[i], proc[p].pstatus)
                       ELSE sessions[i]]
    /\ wallet' = [u \in Users |->
                     IF \E i \in SessionsByClick(proc[p].click) : sessions[i].user = u
                     THEN [initialize_user_wallet(wallet[u]) EXCEPT
                              !.balance = @ + AD_REWARD,
                              !.lifetime_earned = @ + AD_REWARD]
                     ELSE wallet[u]]
    /\ Respond(p, "200_postback")
    /\ UNCHANGED dispatch
    /\ UNCHANGED <<completions, txlog, served>>
PostbackUpdate(p) ==
    /\ proc[p].pc = "pb_update"
    /\ sessions' = [i \in DOMAIN sessions |->
                       IF sessions[i].monetag_click_id = proc[p].click
                       THEN PostbackUpdateData(sessions[i], proc[p].pstatus)
                       ELSE sessions[i]]
    /\ Respond(p, "200_postback")
    /\ UNCHANGED dispatch
    /\ UNCHANGED <<completions, wallet, txlog, served>>

\* monetag_postback, unknown click id: insert into ad_completions (a row
\* without watched_at); a refused insert is swallowed, the postback is accepted
PostbackInsert(p) ==
    /\ proc[p].pc = "pb_insert"
    /\ \E stored \in BOOLEAN :
          completions' = IF stored
                         THEN Append(completions,
                                     [user |-> proc[p].puser, ad_network_id |-> NoAd,
                                      session |-> 0, watched |-> FALSE])
                         ELSE completions
    /\ Respond(p, "200_postback")
    /\ UNCHANGED dispatch
    /\ UNCHANGED <<sessions, wallet, txlog, served>>

\* claim_ad_reward: the checks on the fetched session row
ClaimChecksPending(found, row, u) ==
    IF ~found THEN "404_session_not_found"
    ELSE IF row.user # u THEN "401_unauthorized"
    ELSE IF row.status = "completed" THEN "400_already_claimed"
    ELSE IF ~row.monetag_verified THEN "202_pending"
    ELSE "ok"
ClaimChecksNoVerified(found, row, u) ==
    IF ~found THEN "404_session_not_found"
    ELSE IF row.user # u THEN "401_unauthorized"
    ELSE IF row.status = "completed" THEN "400_already_claimed"
    ELSE "ok"
ClaimChecks(found, row, u) ==
    IF ~found THEN "404_session_not_found"
    ELSE IF row.user # u THEN "401_unauthorized"
    ELSE IF row.status = "completed" THEN "400_already_claimed"
    ELSE IF ~row.monetag_verified THEN "400_not_verified"
    ELSE "ok"

NoSession == [user |-> "none", monetag_click_id |-> NoAd, status |-> "none",
              monetag_verified |-> FALSE]

Fetch(sid) == IF sid \in DOMAIN sessions THEN sessions[sid] ELSE NoSession

\* claim_ad_reward by user u on session sid: select the session by id and
\* check it
ClaimReadFor(p, u, sid) ==
    /\ proc' = [proc EXCEPT ![p] =
                   IF ClaimChecks(sid \in DOMAIN sessions, Fetch(sid), u) # "ok"
                   THEN Idle("none", ClaimChecks(sid \in DOMAIN sessions, Fetch(sid), u))
                   ELSE [Fresh("claim") EXCEPT
                            !.pc = "cl_update", !.user = u, !.sid = sid,
                            !.pre = get_coin_balance(wallet[u])]]
    /\ served' = served + 1
    /\ UNCHANGED dispatch
    /\ UNCHANGED <<sessions, completions, wallet, txlog>>

ClaimRead(p) ==
    /\ CanBegin(p)
    /\ \E u \in Users, sid \in 1..(Len(sessions) + 1) : ClaimReadFor(p, u, sid)

\* verify_and_reward: the checks on the fetched session row ("poll" when the
\* postback has not arrived yet)
VerifyChecks(found, row, u) ==
    IF ~found THEN "404_session_not_found"
    ELSE IF row.user # u THEN "401_unauthorized"
    ELSE IF row.status = "completed" THEN "400_already_claimed"
    ELSE IF row.monetag_verified THEN "ok"
    ELSE "poll"

\* verify_and_reward: select the session by id and check it
VerifyRead(p) ==
    /\ CanBegin(p)
    /\ \E u \in Users, sid \in 1..(Len(sessions) + 1) :
          LET r == VerifyChecks(sid \in DOMAIN sessions, Fetch(sid), u) IN
          proc' = [proc EXCEPT ![p] =
                      IF r \notin {"ok", "poll"}
                      THEN Idle("none", r)
                      ELSE [Fresh("verify") EXCEPT
                               !.pc = IF r = "ok" THEN "cl_update" ELSE "vr_poll",
                               !.user = u, !.sid = sid,
                               !.pre = get_coin_balance(wallet[u])]]
    /\ UNCHANGED dispatch
    /\ UNCHANGED <<sessions, completions, wallet, txlog>>
    /\ served' = served + 1

\* verify_and_reward: one round of the polling loop, re-fetching the session
VerifyPoll(p) ==
    /\ proc[p].pc = "vr_poll"
    /\ proc' = [proc EXCEPT ![p] =
                   IF Fetch(proc[p].sid).monetag_verified
                   THEN [@ EXCEPT !.pc = "cl_update", !.attempt = 0]
                   ELSE IF @.attempt + 1 < max_retries
                   THEN [@ EXCEPT !.attempt = @ + 1]
                   ELSE Idle("none", "202_pending")]
    /\ UNCHANGED dispatch
    /\ UNCHANGED <<sessions, completions, wallet, txlog, served>>

\* claim_ad_reward / claim_ad_reward_internal: update ad_sessions set
\* status = completed where id = session_id
ClaimUpdate(p) ==
    /\ proc[p].pc = "cl_update"
    /\ sessions' = [sessions EXCEPT ![proc[p].sid].status = "completed"]
    /\ proc' = [proc EXCEPT ![p].pc = "cl_record"]
    /\ UNCHANGED dispatch
    /\ UNCHANGED <<completions, wallet, txlog, served>>

\* claim_ad_reward / claim_ad_reward_internal: record_ad_completion, then
\* award_coins(user, AD_REWARD, ad_watched, reference_id = ad_completion_id)
ClaimRecord(p) ==
    /\ proc[p].pc = "cl_record"
    /\ completions' = record_ad_completion(proc[p].user,
                                           sessions[proc[p].sid].monetag_click_id,
                                           proc[p].sid)
    /\ proc' = [proc EXCEPT ![p].pc = "aw_balance", ![p].cid = Len(completions) + 1,
                            ![p].amount = AD_REWARD, ![p].source = "ad_watched",
                            ![p].desc = "ad"]
    /\ UNCHANGED dispatch
    /\ UNCHANGED <<sessions, wallet, txlog, served>>

\* reward_ad_completion (POST /ads/reward): duplicate and daily limit checks
RewardChecks(p) ==
    /\ CanBegin(p)
    /\ \E u \in Users, ad \in AdIds, recent \in BOOLEAN :
          proc' = [proc EXCEPT ![p] =
                      IF check_duplicate_ad(u, ad, recent)
                      THEN Idle("none", "402_duplicate_reward")
                      ELSE IF check_daily_ad_limit(u)
                      THEN Idle("none", "402_daily_limit_reached")
                      ELSE [Fresh("reward") EXCEPT
                               !.pc = "rw_record", !.user = u, !.ad = ad]]
    /\ UNCHANGED dispatch
    /\ UNCHANGED <<sessions, completions, wallet, txlog>>
    /\ served' = served + 1

\* reward_ad_completion: record_ad_completion, then award_coins(ad_watched)
RewardRecord(p) ==
    /\ proc[p].pc = "rw_record"
    /\ completions' = record_ad_completion(proc[p].user, proc[p].ad, 0)
    /\ proc' = [proc EXCEPT ![p].pc = "aw_balance", ![p].cid = Len(completions) + 1,
                            ![p].amount = AD_REWARD, ![p].source = "ad_watched",
                            ![p].desc = "ad"]
    /\ UNCHANGED dispatch
    /\ UNCHANGED <<sessions, wallet, txlog, served>>

\* ------------------------------------------------------ endpoint registry
\* modal_url_manager.get_endpoint_url / get_active: the active deployment (the
\* highest deployment_number should there be several), 0 when there is none
get_endpoint_url(reg) ==
    IF \E d \in Deployments : reg[d].is_active
    THEN CHOOSE d \in Deployments :
            /\ reg[d].is_active
            /\ \A e \in Deployments : reg[e].is_active => e <= d
    ELSE 0

\* modal_url_manager.get_active_deployment, which get_endpoint_url goes
\* through: the singleton remembers the deployment it found as its current
\* one (current_deployment_id); finding none leaves it as it was
get_active_deployment(m, reg) ==
    IF get_endpoint_url(reg) # 0
    THEN [m EXCEPT !.current_deployment_id = get_endpoint_url(reg)]
    ELSE m

\* modal_url_manager.mark_deployment_inactive: one conditional update,
\* is_active = false, deactivated_at = now, guarded by is_active = true;
\* deactivated_at records that a time was written, not which
mark_deployment_inactive(reg, d) ==
    IF reg[d].is_active
    THEN [reg EXCEPT ![d] = [is_active |-> FALSE, deactivated_at |-> TRUE]]
    ELSE reg

\* the deployment promoted after d: the next deployment_number
promote_next(d) == IF d + 1 \in Deployments THEN d + 1 ELSE 0

\* ------------------------------------------------------------- jobs table
\* jobs.update_job_status: the flip to running is conditional on the row
\* being pending; any other status is written to the row addressed by id
update_job_status(row, status) ==
    IF status = "running"
    THEN (IF row.status = "pending" THEN [row EXCEPT !.status = "running"] ELSE row)
    ELSE [row EXCEPT !.status = status]

\* jobs.update_job_result: status completed with the output urls
update_job_result(row, url) == [row EXCEPT !.status = "completed", !.has_url = url]

\* jobs.cancel_job: the owner cancels a job that is still pending
cancel_job(row, u) ==
    IF row.user = u /\ row.status = "pending"
    THEN [row EXCEPT !.status = "cancelled"] ELSE row

\* worker_complete_job: "if not image_url: return 400"
CompleteAcceptsAll(url) == TRUE
CompleteAccepts(url) == url

\* GET /worker/pending-jobs: select * from jobs where status = pending,
\* ordered by created_at
RECURSIVE PendingFrom(_)
PendingFrom(i) ==
    IF i > Len(jobs) THEN <<>>
    ELSE (IF jobs[i].status = "pending" THEN <<i>> ELSE <<>>) \o PendingFrom(i + 1)

fetch_all_pending_jobs == PendingFrom(1)

\* the except block of process_image_job / process_video_job: the job row is
\* not written ("DO NOT mark job as failed")
FailureHandlerMarksFailed(j) == [jobs EXCEPT ![j].status = "failed"]
FailureHandler(j) == jobs

\* -------------------------------------------------------------- dispatcher
\* results of the inference request and of the upload, as the worker sees them
InferenceOutcomes == {"ok", "terminal", "other"}
UploadOutcomes == {"url", "none", "terminal", "other"}

\* the thread has gone through its list: the main thread then opens the
\* change-feed subscription, a thread spawned for an event ends
PassOver(t) == IF t = 0 THEN "listening" ELSE "done"

\* handle_new_job, process_all_pending_jobs, process_job: "if not
\* endpoint_url:" return, or continue with the next job
NoEndpointIgnored(endpoint_url) == FALSE
NoEndpoint(endpoint_url) == endpoint_url = 0

\* start_realtime: the backlog scan, process_all_pending_jobs, begins by
\* fetching the pending jobs
StartRealtime ==
    /\ task[0].pc = "off"
    /\ task' = [task EXCEPT ![0] = [NoTask EXCEPT !.pc = "pick",
                                                  !.todo = fetch_all_pending_jobs]]
    /\ UNCHANGED <<jobs, events, registry, cache>>
    /\ UNCHANGED <<sessions, completions, wallet, txlog, proc, served>>
    /\ UNCHANGED side

\* realtime_listener.handle_new_job: the event of a pending row; the callback
\* reads the endpoint and spawns a thread that processes the job
HandleNewJob(j) ==
    /\ j \in events
    /\ events' = events \ {j}
    /\ task' = [task EXCEPT ![j] =
                   IF NoEndpoint(get_endpoint_url(registry))
                   THEN [NoTask EXCEPT !.pc = "done"]
                   ELSE [NoTask EXCEPT !.pc = "progress", !.job = j,
                                       !.dep = get_endpoint_url(registry)]]
    /\ manager' = get_active_deployment(manager, registry)
    /\ UNCHANGED <<jobs, registry, cache>>
    /\ UNCHANGED <<sessions, completions, wallet, txlog, proc, served>>
    /\ UNCHANGED <<streams, media, infer, route, finish>>

\* process_all_pending_jobs, one round of the loop: the next job of the list
\* and the endpoint for it; without an endpoint the job is skipped
Pick(t) ==
    /\ task[t].pc = "pick"
    /\ task' = [task EXCEPT ![t] =
                   IF task[t].todo = <<>>
                   THEN [NoTask EXCEPT !.pc = PassOver(t)]
                   ELSE IF NoEndpoint(get_endpoint_url(registry))
                   THEN [task[t] EXCEPT !.todo = Tail(task[t].todo)]
                   ELSE [task[t] EXCEPT !.pc = "progress",
                                        !.job = Head(task[t].todo),
                                        !.todo = Tail(task[t].todo),
                                        !.url = FALSE,
                                        !.dep = get_endpoint_url(registry)]]
    /\ manager' = IF task[t].todo = <<>> THEN manager
                  ELSE get_active_deployment(manager, registry)
    /\ UNCHANGED <<jobs, events, registry, cache>>
    /\ UNCHANGED <<sessions, completions, wallet, txlog, proc, served>>
    /\ UNCHANGED <<streams, media, infer, route, finish>>

\* process_image_job / process_video_job: POST /worker/job/<id>/progress, that
\* is worker_update_progress: update_job_status(job_id, status = running);
\* the worker does not read the response
Progress(t) ==
    /\ task[t].pc = "progress"
    /\ jobs' = [jobs EXCEPT ![task[t].job] = update_job_status(@, "running")]
    /\ task' = [task EXCEPT ![t].pc = "generate"]
    /\ UNCHANGED <<events, registry, cache>>
    /\ UNCHANGED <<sessions, completions, wallet, txlog, proc, served>>
    /\ streams' = Broadcast(jobs')
    /\ UNCHANGED <<media, infer, route, finish, manager>>

\* the same request when update_job_status does not succeed:
\* worker_update_progress answers 500, the row is not written, and the
\* worker, which does not read the response, goes on
ProgressFault(t) ==
    /\ task[t].pc = "progress"
    /\ task' = [task EXCEPT ![t].pc = "generate"]
    /\ UNCHANGED <<jobs, events, registry, cache>>
    /\ UNCHANGED <<sessions, completions, wallet, txlog, proc, served>>
    /\ UNCHANGED side

\* the except block of process_image_job / process_video_job: an error that
\* is_limit_reached_error recognises starts the rotation; after any other
\* error the function returns, and nothing is retried
AfterErrorRetries(out) == IF out = "terminal" THEN "mark_inactive" ELSE "fetch"
AfterError(out) == IF out = "terminal" THEN "mark_inactive" ELSE "pick"

\* the inference request, POST <endpoint>/generate, with its retries: a
\* result, an error that is_limit_reached_error classifies as terminal for
\* the endpoint, or any other error
Generate(t) ==
    /\ task[t].pc = "generate"
    /\ \E out \in InferenceOutcomes :
          /\ task' = [task EXCEPT ![t].pc = IF out = "ok" THEN "upload"
                                              ELSE AfterError(out)]
          /\ jobs' = IF out = "ok" THEN jobs ELSE FailureHandler(task[t].job)
    /\ UNCHANGED <<events, registry, cache>>
    /\ UNCHANGED <<sessions, completions, wallet, txlog, proc, served>>
    /\ UNCHANGED side

\* the upload of the artifact to the media store: a url, a response without
\* a url, or an exception (classified like any other)
Upload(t) ==
    /\ task[t].pc = "upload"
    /\ \E out \in UploadOutcomes :
          /\ task' = [task EXCEPT ![t].pc = IF out \in {"url", "none"} THEN "complete"
                                              ELSE AfterError(out),
                                  ![t].url = (out = "url")]
          /\ jobs' = IF out \in {"url", "none"} THEN jobs
                     ELSE FailureHandler(task[t].job)
    /\ UNCHANGED <<events, registry, cache>>
    /\ UNCHANGED <<sessions, completions, wallet, txlog, proc, served>>
    /\ UNCHANGED side

\* POST /worker/job/<id>/complete, that is worker_complete_job: 400 without
\* an image_url, else update_job_result
Complete(t) ==
    /\ task[t].pc = "complete"
    /\ jobs' = IF CompleteAccepts(task[t].url)
               THEN [jobs EXCEPT ![task[t].job] = update_job_result(@, task[t].url)]
               ELSE jobs
    /\ task' = [task EXCEPT ![t].pc = "pick"]
    /\ UNCHANGED <<events, registry, cache>>
    /\ UNCHANGED <<sessions, completions, wallet, txlog, proc, served>>
    /\ streams' = Broadcast(jobs')
    /\ UNCHANGED <<media, infer, route, finish, manager>>

\* the deployment that mark_deployment_inactive(), called without an
\* argument, acts on: the one the singleton holds as current
Marked(t) == manager.current_deployment_id

\* the except block on a terminal error: url_manager.mark_deployment_inactive()
MarkInactive(t) ==
    /\ task[t].pc = "mark_inactive"
    /\ registry' = mark_deployment_inactive(registry, Marked(t))
    /\ task' = [task EXCEPT ![t].pc = IF registry[Marked(t)].is_active
                                      THEN "invalidate" ELSE "next"]
    /\ jobs' = FailureHandler(task[t].job)
    /\ UNCHANGED <<events, cache>>
    /\ UNCHANGED <<sessions, completions, wallet, txlog, proc, served>>
    /\ UNCHANGED side

\* the except block, "if success": POST /invalidate-cache, that is
\* invalidate_cache: cache_invalidation_flag = True
Invalidate(t) ==
    /\ task[t].pc = "invalidate"
    /\ cache' = [cache EXCEPT !.cache_invalidation_flag = TRUE]
    /\ task' = [task EXCEPT ![t].pc = "next"]
    /\ jobs' = FailureHandler(task[t].job)
    /\ UNCHANGED <<events, registry>>
    /\ UNCHANGED <<sessions, completions, wallet, txlog, proc, served>>
    /\ UNCHANGED side

\* the except block: url_manager.get_active_deployment(), which promotes the
\* successor when no deployment is active; with a deployment the pending
\* jobs are retried, without one the thread gives the job up
NextDeployment(t) ==
    /\ task[t].pc = "next"
    /\ registry' = IF get_endpoint_url(registry) = 0 /\ promote_next(task[t].dep) # 0
                   THEN [registry EXCEPT ![promote_next(task[t].dep)].is_active = TRUE]
                   ELSE registry
    /\ task' = [task EXCEPT ![t].pc = IF get_endpoint_url(registry') # 0
                                      THEN "fetch" ELSE "pick"]
    /\ manager' = get_active_deployment(manager, registry')
    /\ jobs' = FailureHandler(task[t].job)
    /\ UNCHANGED <<events, cache>>
    /\ UNCHANGED <<sessions, completions, wallet, txlog, proc, served>>
    /\ UNCHANGED <<streams, media, infer, route, finish>>

\* retry_all_pending_jobs: process_all_pending_jobs inside the except block;
\* the jobs fetched are processed before the caller's list is resumed
RetryFetch(t) ==
    /\ task[t].pc = "fetch"
    /\ task' = [task EXCEPT ![t].pc = "pick",
                            ![t].todo = fetch_all_pending_jobs \o @]
    /\ jobs' = FailureHandler(task[t].job)
    /\ UNCHANGED <<events, registry, cache>>
    /\ UNCHANGED <<sessions, completions, wallet, txlog, proc, served>>
    /\ UNCHANGED side

\* ------------------------------------------- job and URL endpoints (HTTP)
\* the job types of GET /get-url?job_type=
JobTypes == {"image", "video"}

\* the answer of get_url: the url of the endpoint for url_type of deployment
\* d, to a request for job_type
UrlResponse(result, d, job_type, url_type) ==
    [Idle("none", result) EXCEPT !.body = d, !.job_type = job_type,
                                 !.url_type = url_type]

\* get_url: a set cache_invalidation_flag clears the cache; a cached url is
\* returned as it is, otherwise the job_type parameter and the registry are
\* read (next step)
GetUrl(p) ==
    /\ CanBegin(p)
    /\ \E job_type \in JobTypes :
          LET cleared == IF cache.cache_invalidation_flag THEN NoCache ELSE cache
          IN /\ cache' = cleared
             /\ proc' = [proc EXCEPT ![p] =
                            IF cleared.cached_url # 0
                            THEN UrlResponse("200_url_cached", cleared.cached_url,
                                             job_type, cleared.cached_type)
                            ELSE [Fresh("get_url") EXCEPT !.pc = "gu_fetch",
                                                         !.job_type = job_type]]
    /\ served' = served + 1
    /\ UNCHANGED <<jobs, events, task, registry>>
    /\ UNCHANGED <<sessions, completions, wallet, txlog>>
    /\ UNCHANGED side

\* get_url: url_manager.get_endpoint_url(job_type); a url is cached and
\* returned, none is a 503
GetUrlFetch(p) ==
    /\ proc[p].pc = "gu_fetch"
    /\ IF get_endpoint_url(registry) # 0
       THEN /\ cache' = [cache EXCEPT !.cached_url = get_endpoint_url(registry),
                                      !.cached_type = proc[p].job_type]
            /\ proc' = [proc EXCEPT ![p] =
                           UrlResponse("200_url", get_endpoint_url(registry),
                                       proc[p].job_type, proc[p].job_type)]
       ELSE /\ cache' = cache
            /\ Respond(p, "503_no_deployment")
    /\ UNCHANGED <<jobs, events, task, registry>>
    /\ UNCHANGED <<sessions, completions, wallet, txlog, served>>
    /\ UNCHANGED side

\* jobs_cancel: DELETE /jobs/<id>, cancel_job(job_id, user_id)
JobsCancel(p) ==
    /\ CanBegin(p)
    /\ \E u \in Users, j \in DOMAIN jobs :
          /\ jobs' = [jobs EXCEPT ![j] = cancel_job(@, u)]
          /\ Respond(p, IF cancel_job(jobs[j], u) # jobs[j]
                        THEN "200_cancelled" ELSE "400_not_cancelled")
    /\ served' = served + 1
    /\ UNCHANGED <<events, task, registry, cache>>
    /\ UNCHANGED <<sessions, completions, wallet, txlog>>
    /\ streams' = Broadcast(jobs')
    /\ UNCHANGED <<media, infer, route, finish, manager>>

\* worker_fail_job: POST /worker/job/<id>/fail,
\* update_job_status(job_id, status = failed)
WorkerFail(p) ==
    /\ CanBegin(p)
    /\ \E j \in DOMAIN jobs :
          jobs' = [jobs EXCEPT ![j] = update_job_status(@, "failed")]
    /\ Respond(p, "200_failed")
    /\ served' = served + 1
    /\ UNCHANGED <<events, task, registry, cache>>
    /\ UNCHANGED <<sessions, completions, wallet, txlog>>
    /\ streams' = Broadcast(jobs')
    /\ UNCHANGED <<media, infer, route, finish, manager>>

\* ------------------------------------------------ GET /jobs/<id>/stream
\* jobs_stream_status: the job row is read; a job that does not belong to the
\* caller is a 404, otherwise the stream is authorized
JobsStreamStatus(s) ==
    /\ streams[s].pc = "off"
    /\ \E u \in Users, j \in DOMAIN jobs :
          streams' = [streams EXCEPT ![s] =
                         IF jobs[j].user = u
                         THEN [NoStream EXCEPT !.pc = "accepted", !.job = j]
                         ELSE [NoStream EXCEPT !.pc = "404"]]
    /\ UNCHANGED <<jobs, events, task, registry, cache>>
    /\ UNCHANGED <<sessions, completions, wallet, txlog, proc, served>>
    /\ UNCHANGED <<media, infer, route, finish, manager>>

\* jobs_stream_status: realtime_manager.subscribe_to_job(job_id, client_queue),
\* then the response starts with the connected event
StreamSubscribe(s) ==
    /\ streams[s].pc = "accepted"
    /\ streams' = [streams EXCEPT ![s].pc = "open", ![s].sent = <<"connected">>]
    /\ UNCHANGED <<jobs, events, task, registry, cache>>
    /\ UNCHANGED <<sessions, completions, wallet, txlog, proc, served>>
    /\ UNCHANGED <<media, infer, route, finish, manager>>

\* the finally path of generate: realtime_manager.unsubscribe_from_job
unsubscribe_from_job(st) ==
    [st EXCEPT !.pc = "closed", !.queue = <<>>, !.unsubscribed = @ + 1]

\* generate: "if job_data.get('status') in ['completed', 'failed',
\* 'cancelled']: break"
StreamClosesNever(status) == FALSE
StreamCloses(status) == status \in Terminal

\* generate, one round of the loop with a payload on the queue: an error
\* payload is sent as an error event and ends the stream; a row is sent as an
\* update event, and a terminal status ends the stream
StreamEmit(s) ==
    /\ streams[s].pc = "open"
    /\ streams[s].queue # <<>>
    /\ LET payload == Head(streams[s].queue)
           st == [streams[s] EXCEPT !.queue = Tail(@), !.sent = Append(@, payload)]
       IN streams' = [streams EXCEPT ![s] =
                         IF payload = "error" \/ StreamCloses(payload)
                         THEN unsubscribe_from_job(st) ELSE st]
    /\ UNCHANGED <<jobs, events, task, registry, cache>>
    /\ UNCHANGED <<sessions, completions, wallet, txlog, proc, served>>
    /\ UNCHANGED <<media, infer, route, finish, manager>>

\* the hub puts an error payload on the queue of a sink
HubError(s) ==
    /\ streams[s].pc = "open"
    /\ \A i \in DOMAIN streams[s].queue : streams[s].queue[i] # "error"
    /\ streams' = [streams EXCEPT ![s].queue = Append(@, "error")]
    /\ UNCHANGED <<jobs, events, task, registry, cache>>
    /\ UNCHANGED <<sessions, completions, wallet, txlog, proc, served>>
    /\ UNCHANGED <<media, infer, route, finish, manager>>

\* the client goes away: GeneratorExit in generate, then its finally path
ClientDisconnect(s) ==
    /\ streams[s].pc = "open"
    /\ streams' = [streams EXCEPT ![s] = unsubscribe_from_job(@)]
    /\ UNCHANGED <<jobs, events, task, registry, cache>>
    /\ UNCHANGED <<sessions, completions, wallet, txlog, proc, served>>
    /\ UNCHANGED <<media, infer, route, finish, manager>>

\* -------------------------------------------------- media store manager
\* check_account_usage: "bandwidth_used >= self.BANDWIDTH_THRESHOLD and not
\* bandwidth_unlimited"
over_bandwidthStrict(usage) ==
    usage.bandwidth_used > BANDWIDTH_THRESHOLD /\ ~usage.bandwidth_unlimited
over_bandwidth(usage) ==
    usage.bandwidth_used >= BANDWIDTH_THRESHOLD /\ ~usage.bandwidth_unlimited

\* check_account_usage: over_storage and over_threshold
over_storage(usage) == usage.storage_percent >= STORAGE_THRESHOLD_PERCENT

over_threshold(usage) == over_bandwidth(usage) \/ over_storage(usage)

\* rotate_to_next_account: "if usage and not usage.get('over_threshold')"
Available(usage) == usage.ok /\ ~over_threshold(usage)

\* rotate_to_next_account: the accounts after the current one are probed in
\* order, the current one last; the first available one becomes current,
\* and without one the current account stays
rotate_to_next_account(m) ==
    LET n == m.accounts
        start_index == m.current_account_index
        good == {i \in 0..(n - 1) : Available(m.usage[(start_index + i + 1) % n])}
    IN IF good = {} THEN start_index
       ELSE (start_index + (CHOOSE i \in good : \A k \in good : i <= k) + 1) % n

\* select_best_account: the current account is kept when its probe fails or
\* it is under the thresholds, otherwise the pool is rotated
select_best_account(m) ==
    LET usage == m.usage[m.current_account_index]
    IN IF ~usage.ok THEN m.current_account_index
       ELSE IF over_threshold(usage) THEN rotate_to_next_account(m)
       ELSE m.current_account_index

\* upload_with_retry: "max_retries = len(self.accounts)"
upload_max_retriesLong(m) == m.accounts + 1
upload_max_retries(m) == m.accounts

\* what upload_func does: a result, an exception whose message names a quota
\* or limit, or any other exception
UploadResults == {"ok", "quota", "error"}

\* upload_with_retry is called
UploadWithRetry ==
    /\ media.pc \in {"idle", "returned", "raised"}
    /\ media' = [media EXCEPT !.pc = "select", !.attempt = 0, !.used = {},
                              !.uploads = 0]
    /\ UNCHANGED <<jobs, events, task, registry, cache, streams, infer, route, finish, manager>>
    /\ UNCHANGED <<sessions, completions, wallet, txlog, proc, served>>

\* upload_with_retry, one round of the loop: select_best_account
SelectBestAccount ==
    /\ media.pc = "select"
    /\ media' = [media EXCEPT !.pc = "upload",
                              !.current_account_index = select_best_account(media)]
    /\ UNCHANGED <<jobs, events, task, registry, cache, streams, infer, route, finish, manager>>
    /\ UNCHANGED <<sessions, completions, wallet, txlog, proc, served>>

\* upload_with_retry, one round of the loop: upload_func on the current
\* account; its result is returned; after an exception the pool is rotated
\* while attempts remain, and the exception of the last attempt is raised
UploadAttempt ==
    /\ media.pc = "upload"
    /\ \E out \in UploadResults :
          LET m == [media EXCEPT !.used = @ \cup {media.current_account_index},
                                 !.uploads = @ + 1]
          IN media' =
                IF out = "ok" THEN [m EXCEPT !.pc = "returned"]
                ELSE IF media.attempt < upload_max_retries(media) - 1
                THEN [m EXCEPT !.pc = "select", !.attempt = @ + 1,
                               !.current_account_index = rotate_to_next_account(media)]
                ELSE [m EXCEPT !.pc = "raised"]
    /\ UNCHANGED <<jobs, events, task, registry, cache, streams, infer, route, finish, manager>>
    /\ UNCHANGED <<sessions, completions, wallet, txlog, proc, served>>

\* the usage of an account, as the media store reports it, changes
UsageChanges ==
    /\ \E a \in DOMAIN media.usage, pr \in Probes :
          media' = [media EXCEPT !.usage[a] = pr]
    /\ UNCHANGED <<jobs, events, task, registry, cache, streams, infer, route, finish, manager>>
    /\ UNCHANGED <<sessions, completions, wallet, txlog, proc, served>>

\* ---------------------------------------------------- inference request
\* what requests.post comes back with: a response (200, the 404 of a stopped
\* app, a 5xx, another status) or an exception
Responses == {"200", "404_stopped", "5xx", "4xx", "timeout", "connection_error",
              "exception"}

\* process_image_job: "for attempt in range(max_retries)" with max_retries =
\* 3; process_video_job makes one request, outside any loop
inference_max_retriesLong(job_type) ==
    IF job_type = "image" THEN image_max_retries + 1 ELSE 2
inference_max_retries(job_type) ==
    IF job_type = "image" THEN image_max_retries ELSE 1

\* process_image_job: the outcomes after which the loop continues while
\* attempts remain: the 404 of a stopped app, Timeout, ConnectionError and
\* any other exception of the request; every other response breaks the loop
LoopContinues(r) ==
    r \in {"404_stopped", "timeout", "connection_error", "exception"}

\* process_image_job / process_video_job reach the inference request
InferStart ==
    /\ infer.pc \in {"idle", "upload", "failure"}
    /\ \E ty \in {"image", "video"} :
          infer' = [NoInfer EXCEPT !.pc = "post", !.job_type = ty]
    /\ finish' = NoFinish
    /\ UNCHANGED <<jobs, events, task, registry, cache, streams, media, route, manager>>
    /\ UNCHANGED <<sessions, completions, wallet, txlog, proc, served>>

\* one POST <endpoint>/generate and what follows it: another round of the
\* loop, the rest of the job (the upload) after a 200, or an exception that
\* reaches the except block of the job
InferPost ==
    /\ infer.pc = "post"
    /\ \E r \in Responses :
          infer' = [infer EXCEPT
                      !.posts = @ + 1,
                      !.last = r,
                      !.attempt = IF LoopContinues(r)
                                     /\ @ < inference_max_retries(infer.job_type) - 1
                                  THEN @ + 1 ELSE @,
                      !.pc = IF LoopContinues(r)
                                /\ infer.attempt < inference_max_retries(infer.job_type) - 1
                             THEN "post"
                             ELSE IF r = "200" THEN "upload" ELSE "failure"]
    /\ UNCHANGED <<jobs, events, task, registry, cache, streams, media, route, finish, manager>>
    /\ UNCHANGED <<sessions, completions, wallet, txlog, proc, served>>

\* ------------------------------------------------------ job classification
\* model names of the rows, as sequences of characters
ModelNames ==
    { <<>>,
      <<"f", "l", "u", "x">>,
      <<"s", "d", "x", "l">>,
      <<"w", "a", "n">>,
      <<"w", "a", "n", "2", ".", "2">>,
      <<"W", "a", "n", "2", ".", "2">>,
      <<"s", "w", "a", "n">>,
      <<"l", "t", "x", "-", "v", "i", "d", "e", "o">>,
      <<"L", "T", "X", "-", "v", "i", "d", "e", "o">>,
      <<"l", "t", "x">>,
      <<"w", "a", "n", "2", "2", "-", "a", "n", "i", "m", "a", "t", "e", "-", "1", "4", "b">> }

\* process_job: video_models
video_models ==
    { <<"l", "t", "x", "-", "v", "i", "d", "e", "o", "-", "1", "3", "b">>,
      <<"l", "t", "x", "-", "v", "i", "d", "e", "o">>,
      <<"w", "a", "n", "2", "2", "-", "a", "n", "i", "m", "a", "t", "e", "-", "1", "4", "b">>,
      <<"w", "a", "n", "2", ".", "2">>,
      <<"w", "a", "n">> }

\* str.lower on the characters the model names are written with
lower(str) ==
    [i \in 1..Len(str) |->
        CASE str[i] = "W" -> "w"
          [] str[i] = "L" -> "l"
          [] str[i] = "T" -> "t"
          [] str[i] = "X" -> "x"
          [] OTHER -> str[i]]

\* Python's "sub in str"
Contains(str, sub) ==
    \E k \in 0..(Len(str) - Len(sub)) :
        \A i \in 1..Len(sub) : str[k + i] = sub[i]

\* job.get("job_type", "image")
declared_job_type(job_type) == IF job_type = "none" THEN "image" ELSE job_type

\* process_job: the declared type, turned into video when it is image and
\* the lower-cased model name contains one of video_models
classify(job_type, model) ==
    IF declared_job_type(job_type) = "image"
       /\ \E vm \in video_models : Contains(lower(model), vm)
    THEN "video"
    ELSE declared_job_type(job_type)

\* the handler a type is routed to: process_video_job for "video",
\* process_image_job for anything else
handler_of(job_type) == IF job_type = "video" THEN "video" ELSE "image"

\* process_job routes the job
RouteProcessJob ==
    /\ route.entry = "none"
    /\ route' = [route EXCEPT !.entry = "process_job",
                              !.handler = handler_of(classify(route.job_type, route.model))]
    /\ UNCHANGED <<jobs, events, task, registry, cache, streams, media, infer, finish, manager>>
    /\ UNCHANGED <<sessions, completions, wallet, txlog, proc, served>>

\* process_all_pending_jobs routes the job: by the declared type alone
RouteBacklog ==
    /\ route.entry = "none"
    /\ route' = [route EXCEPT !.entry = "process_all_pending_jobs",
                              !.handler = handler_of(declared_job_type(route.job_type))]
    /\ UNCHANGED <<jobs, events, task, registry, cache, streams, media, infer, finish, manager>>
    /\ UNCHANGED <<sessions, completions, wallet, txlog, proc, served>>

\* handle_new_job routes the job: by the declared type alone
RouteRealtime ==
    /\ route.entry = "none"
    /\ route' = [route EXCEPT !.entry = "handle_new_job",
                              !.handler = handler_of(declared_job_type(route.job_type))]
    /\ UNCHANGED <<jobs, events, task, registry, cache, streams, media, infer, finish, manager>>
    /\ UNCHANGED <<sessions, completions, wallet, txlog, proc, served>>

\* ------------------------------------------- the result of an image job
\* POST /cloudinary/upload-image as process_image_job sees it: 200 with a
\* secure_url, 200 without one, another status, an exception
ImageUploadOutcomes == {"200_url", "200_none", "non200", "exception"}

\* "cloudinary_link or temp_image_url"
final_url(link, temp) ==
    IF link # "none" THEN link ELSE IF temp THEN "temp" ELSE "none"

\* the 200 response of the endpoint: the image itself, or JSON with success,
\* image_url/url and cloudinary_link
FinishResponse ==
    /\ infer.pc = "upload"
    /\ infer.job_type = "image"
    /\ finish.pc = "idle"
    /\ \/ finish' = [finish EXCEPT !.pc = "upload", !.content = "image"]
       \/ \E success \in BOOLEAN, temp \in BOOLEAN, link \in {"none", "cdn"} :
             finish' = [finish EXCEPT
                          !.content = "json",
                          !.temp = temp,
                          !.link = link,
                          !.uploaded = (link = "cdn"),
                          !.sent = IF success /\ ~(link = "none" /\ temp)
                                   THEN final_url(link, temp) ELSE @,
                          !.pc = IF ~success THEN "failure"
                                 ELSE IF link = "none" /\ temp THEN "download"
                                 ELSE "complete"]
    /\ UNCHANGED <<jobs, events, task, registry, cache, streams, media, infer, route, manager>>
    /\ UNCHANGED <<sessions, completions, wallet, txlog, proc, served>>

\* the image came in the response: upload it; anything but a 200 raises
FinishUploadImage ==
    /\ finish.pc = "upload"
    /\ \E out \in ImageUploadOutcomes :
          finish' = [finish EXCEPT
                       !.upload = out,
                       !.link = IF out = "200_url" THEN "cdn" ELSE @,
                       !.uploaded = (out = "200_url"),
                       !.sent = IF out = "200_url" THEN "cdn" ELSE @,
                       !.pc = IF out \in {"200_url", "200_none"} THEN "complete"
                              ELSE "failure"]
    /\ UNCHANGED <<jobs, events, task, registry, cache, streams, media, infer, route, manager>>
    /\ UNCHANGED <<sessions, completions, wallet, txlog, proc, served>>

\* JSON without a cloudinary_link: GET the temporary url; a failure is
\* printed and the temporary url is kept
FinishDownload ==
    /\ finish.pc = "download"
    /\ \E out \in {"200", "non200", "exception"} :
          finish' = [finish EXCEPT
                       !.download = out,
                       !.sent = IF out = "200" THEN @ ELSE final_url(finish.link, finish.temp),
                       !.pc = IF out = "200" THEN "upload_json" ELSE "complete"]
    /\ UNCHANGED <<jobs, events, task, registry, cache, streams, media, infer, route, manager>>
    /\ UNCHANGED <<sessions, completions, wallet, txlog, proc, served>>

\* the downloaded image is uploaded; a failure is printed ("Will use
\* temporary URL as fallback") and final_url is the temporary url
FinishUploadJson ==
    /\ finish.pc = "upload_json"
    /\ \E out \in ImageUploadOutcomes :
          LET link == IF out = "200_url" THEN "cdn" ELSE "none" IN
          finish' = [finish EXCEPT
                       !.upload = out,
                       !.link = link,
                       !.uploaded = (out = "200_url"),
                       !.sent = final_url(link, finish.temp),
                       !.pc = "complete"]
    /\ UNCHANGED <<jobs, events, task, registry, cache, streams, media, infer, route, manager>>
    /\ UNCHANGED <<sessions, completions, wallet, txlog, proc, served>>

\* POST /worker/job/<id>/complete with image_url and thumbnail_url set to the
\* same url: worker_complete_job answers 400 without an image_url, else
\* update_job_result writes the row (or fails, 500)
FinishComplete ==
    /\ finish.pc = "complete"
    /\ \E stored \in BOOLEAN :
          finish' = [finish EXCEPT
                       !.pc = "done",
                       !.row = IF finish.sent # "none" /\ stored
                               THEN [status |-> "completed",
                                     image_url |-> finish.sent,
                                     thumbnail_url |-> finish.sent]
                               ELSE @]
    /\ UNCHANGED <<jobs, events, task, registry, cache, streams, media, infer, route, manager>>
    /\ UNCHANGED <<sessions, completions, wallet, txlog, proc, served>>

AdsNext ==
    \E p \in Procs :
        \/ StartSession(p)
        \/ StartSessionInsert(p)
        \/ PostbackReceive(p)
        \/ PostbackUpdate(p)
        \/ PostbackInsert(p)
        \/ ClaimRead(p)
        \/ VerifyRead(p)
        \/ VerifyPoll(p)
        \/ ClaimUpdate(p)
        \/ ClaimRecord(p)
        \/ RewardChecks(p)
        \/ RewardRecord(p)
        \/ AwardBalance(p)
        \/ AwardEarned(p)
        \/ AwardUpdate(p)
        \/ AwardLog(p)

LedgerNext ==
    \E p \in Procs :
        \/ Deduct(p)
        \/ AdminAdjust(p)
        \/ DeductSpent(p)
        \/ DeductUpdate(p)
        \/ DeductLog(p)
        \/ AwardEarned(p)
        \/ AwardUpdate(p)
        \/ AwardLog(p)

\* every handler, any two of them interleaved
Next ==
    \E p \in Procs :
        \/ StartSession(p)
        \/ StartSessionInsert(p)
        \/ PostbackReceive(p)
        \/ PostbackUpdate(p)
        \/ PostbackInsert(p)
        \/ ClaimRead(p)
        \/ VerifyRead(p)
        \/ VerifyPoll(p)
        \/ ClaimUpdate(p)
        \/ ClaimRecord(p)
        \/ RewardChecks(p)
        \/ RewardRecord(p)
        \/ AwardBalance(p)
        \/ AwardEarned(p)
        \/ AwardUpdate(p)
        \/ AwardLog(p)
        \/ Deduct(p)
        \/ AdminAdjust(p)
        \/ DeductSpent(p)
        \/ DeductUpdate(p)
        \/ DeductLog(p)

\* the same handlers, one request served at a time
OthersIdle(p) == \A q \in Procs \ {p} : proc[q].pc = "idle"

SeqNext ==
    \E p \in Procs :
        /\ OthersIdle(p)
        /\ \/ StartSession(p)
           \/ StartSessionInsert(p)
           \/ PostbackReceive(p)
           \/ PostbackUpdate(p)
           \/ PostbackInsert(p)
           \/ ClaimRead(p)
           \/ VerifyRead(p)
           \/ VerifyPoll(p)
           \/ ClaimUpdate(p)
           \/ ClaimRecord(p)
           \/ RewardChecks(p)
           \/ RewardRecord(p)
           \/ AwardBalance(p)
           \/ AwardEarned(p)
           \/ AwardUpdate(p)
           \/ AwardLog(p)
           \/ Deduct(p)
           \/ AdminAdjust(p)
           \/ DeductSpent(p)
           \/ DeductUpdate(p)
           \/ DeductLog(p)

\* the ledger calls, one at a time, over a row store that may fail any call
LedgerFaultNext ==
    \E p \in Procs :
        /\ OthersIdle(p)
        /\ \/ Deduct(p)
           \/ AdminAdjust(p)
           \/ DeductSpent(p)
           \/ DeductUpdate(p)
           \/ DeductLog(p)
           \/ AwardEarned(p)
           \/ AwardUpdate(p)
           \/ AwardLog(p)
           \/ DeductReadFault(p)
           \/ DeductSpentFault(p)
           \/ DeductUpdateFault(p)
           \/ DeductLogFault(p)

\* POST /jobs together with the ledger calls that fund and charge the wallet
JobsNext ==
    \E p \in Procs :
        \/ JobsCreate(p)
        \/ JobsBalance(p)
        \/ JobsNeeded(p)
        \/ JobsInsert(p)
        \/ JobsDeduct(p)
        \/ DeductSpent(p)
        \/ DeductUpdate(p)
        \/ DeductLog(p)
        \/ AdminAdjust(p)
        \/ AwardEarned(p)
        \/ AwardUpdate(p)
        \/ AwardLog(p)

\* the wallet of u1 after give_test_coins granted 10 coins: the state in
\* which jobs are submitted to the dispatcher
InitFunded ==
    /\ sessions = <<>>
    /\ completions = <<>>
    /\ wallet = [u \in Users |->
                    IF u = "u1"
                    THEN [exists |-> TRUE, balance |-> 10,
                          lifetime_earned |-> 10, lifetime_spent |-> 0]
                    ELSE NoWallet]
    /\ txlog = <<[user |-> "u1", type |-> "admin_bonus", coins_delta |-> 10,
                  balance_after |-> 10, reference_id |-> 0, session |-> 0,
                  desc |-> "admin"]>>
    /\ proc = [p \in Procs |-> Idle("none", "none")]
    /\ served = 0
    /\ jobs = <<>>
    /\ events = {}
    /\ task = [t \in Tasks |-> NoTask]
    /\ registry = [d \in Deployments |-> [is_active |-> d = 1, deactivated_at |-> FALSE]]
    /\ cache = NoCache
    /\ streams = [s \in Streams |-> NoStream]
    /\ media = NoMedia
    /\ infer = NoInfer
    /\ route = NoRoute
    /\ finish = NoFinish
    /\ manager = NoManager

\* no POST /jobs is in progress
NoSubmission == \A p \in Procs : proc[p].op # "jobs"

\* the dispatcher's threads, stepping between two POST /jobs
DispatcherNext ==
    \/ NoSubmission /\ StartRealtime
    \/ \E j \in Tasks \ {0} : NoSubmission /\ HandleNewJob(j)
    \/ \E t \in Tasks :
          \/ NoSubmission /\ Pick(t)
          \/ NoSubmission /\ Progress(t)
          \/ NoSubmission /\ Generate(t)
          \/ NoSubmission /\ Upload(t)
          \/ NoSubmission /\ Complete(t)
          \/ NoSubmission /\ MarkInactive(t)
          \/ NoSubmission /\ Invalidate(t)
          \/ NoSubmission /\ NextDeployment(t)
          \/ NoSubmission /\ RetryFetch(t)

\* POST /jobs from its first store call to its response, one at a time
Submission(p) ==
    \/ NoSubmission /\ JobsCreate(p)
    \/ JobsBalance(p)
    \/ JobsNeeded(p)
    \/ JobsInsert(p)
    \/ JobsDeduct(p)
    \/ DeductSpent(p)
    \/ DeductUpdate(p)
    \/ DeductLog(p)

\* the job pipeline: POST /jobs, the job endpoints, the dispatcher.  Apart
\* from the insert of the job row, the steps of POST /jobs read and write the
\* wallet and the transaction log only, which no other step here touches:
\* every interleaving is equivalent to one in which the steps of a POST /jobs
\* follow each other, and only those are generated.  (Two POST /jobs racing
\* on one wallet are the subject of JobsNext.)
PipelineNext ==
    \/ DispatcherNext
    \/ \E p \in Procs :
          \/ Submission(p)
          \/ NoSubmission /\ JobsCancel(p)
          \/ NoSubmission /\ WorkerFail(p)

\* POST /jobs and the dispatcher alone
DispatchNext ==
    \/ DispatcherNext
    \/ \E p \in Procs : Submission(p)

\* a POST /jobs that has begun goes on to its response
MidSubmission == \E p \in Procs : proc[p].op = "jobs" /\ Submission(p)

\* the dispatcher and GET /get-url
UrlNext ==
    \/ DispatcherNext
    \/ \E p \in Procs :
          \/ Submission(p)
          \/ NoSubmission /\ GetUrl(p)
          \/ NoSubmission /\ GetUrlFetch(p)

Spec == Init /\ [][Next]_vars

SpecAds == Init /\ [][AdsNext]_vars

SpecLedger == Init /\ [][LedgerNext]_vars

SpecSeq == Init /\ [][SeqNext]_vars
SpecLedgerFault == Init /\ [][LedgerFaultNext]_vars
SpecJobs == Init /\ [][JobsNext]_vars
SpecPipeline == InitFunded /\ [][PipelineNext]_vars
SpecUrl == InitFunded /\ [][UrlNext]_vars
SpecDispatch == InitFunded /\ [][DispatchNext]_vars
\* every dispatcher thread that can take a step eventually takes one
SpecDispatchFair ==
    /\ SpecDispatch
    /\ WF_vars(DispatcherNext)
    /\ WF_vars(MidSubmission)

\* the jobs that the 10 coins of InitFunded pay for, within the jobs table
BacklogJobs ==
    IF 10 \div GENERATION_COST < MaxJobs THEN 10 \div GENERATION_COST ELSE MaxJobs

\* the state after u1, funded as in InitFunded, has submitted these jobs and
\* all are pending: either the dispatcher has not started yet and will find
\* them in its backlog, or it was listening when they were inserted and
\* their events are still to be delivered
InitBacklog ==
    /\ sessions = <<>>
    /\ completions = <<>>
    /\ wallet = [u \in Users |->
                    IF u = "u1"
                    THEN [exists |-> TRUE,
                          balance |-> 10 - BacklogJobs * GENERATION_COST,
                          lifetime_earned |-> 10,
                          lifetime_spent |-> BacklogJobs * GENERATION_COST]
                    ELSE NoWallet]
    /\ txlog = <<[user |-> "u1", type |-> "admin_bonus", coins_delta |-> 10,
                  balance_after |-> 10, reference_id |-> 0, session |-> 0,
                  desc |-> "admin"]>>
                \o [j \in 1..BacklogJobs |->
                      [user |-> "u1", type |-> "generation_used",
                       coins_delta |-> 0 - GENERATION_COST,
                       balance_after |-> 10 - j * GENERATION_COST,
                       reference_id |-> j, session |-> 0, desc |-> "generation"]]
    /\ proc = [p \in Procs |->
                  IF p = 1
                  THEN [Idle("none", "201_created") EXCEPT !.body = BacklogJobs]
                  ELSE Idle("none", "none")]
    /\ served = BacklogJobs
    /\ jobs = [j \in 1..BacklogJobs |-> create_job("u1")]
    /\ \/ /\ events = {}
          /\ task = [t \in Tasks |-> NoTask]
       \/ /\ events = 1..BacklogJobs
          /\ task = [t \in Tasks |->
                        IF t = 0 THEN [NoTask EXCEPT !.pc = PassOver(0)] ELSE NoTask]
    /\ registry = [d \in Deployments |-> [is_active |-> d = 1, deactivated_at |-> FALSE]]
    /\ cache = NoCache
    /\ streams = [s \in Streams |-> NoStream]
    /\ media = NoMedia
    /\ infer = NoInfer
    /\ route = NoRoute
    /\ finish = NoFinish
    /\ manager = NoManager

\* the dispatcher working on a set of pending jobs, with rows that can stay
\* pending while they are processed
RecoveryNext ==
    \/ DispatcherNext
    \/ \E t \in Tasks : ProgressFault(t)

\* every dispatcher thread that can take a step eventually takes one
SpecRecovery == InitBacklog /\ [][RecoveryNext]_vars /\ WF_vars(RecoveryNext)

\* as InitFunded, the registry holding an active deployment or none (every
\* deployment it holds was deactivated)
InitOutage ==
    \/ InitFunded
    \/ /\ sessions = <<>>
       /\ completions = <<>>
       /\ wallet = [u \in Users |->
                      IF u = "u1"
                      THEN [exists |-> TRUE, balance |-> 10,
                            lifetime_earned |-> 10, lifetime_spent |-> 0]
                      ELSE NoWallet]
       /\ txlog = <<[user |-> "u1", type |-> "admin_bonus", coins_delta |-> 10,
                     balance_after |-> 10, reference_id |-> 0, session |-> 0,
                     desc |-> "admin"]>>
       /\ proc = [p \in Procs |-> Idle("none", "none")]
       /\ served = 0
       /\ jobs = <<>>
       /\ events = {}
       /\ task = [t \in Tasks |-> NoTask]
       /\ registry = [d \in Deployments |-> [is_active |-> FALSE, deactivated_at |-> TRUE]]
       /\ cache = NoCache
       /\ streams = [s \in Streams |-> NoStream]
       /\ media = NoMedia
       /\ infer = NoInfer
       /\ route = NoRoute
       /\ finish = NoFinish
       /\ manager = NoManager

SpecOutage == InitOutage /\ [][DispatchNext]_vars

\* the dispatcher, POST /jobs and the SSE handlers
StreamNext ==
    \/ DispatcherNext
    \/ \E p \in Procs : Submission(p)
    \/ \E s \in Streams :
          \/ NoSubmission /\ JobsStreamStatus(s)
          \/ NoSubmission /\ StreamSubscribe(s)
          \/ NoSubmission /\ StreamEmit(s)
          \/ NoSubmission /\ HubError(s)
          \/ NoSubmission /\ ClientDisconnect(s)

SpecStream == InitFunded /\ [][StreamNext]_vars

\* the number of today's sessions of u1 that have been claimed
DayClaimed == {0, MAX_ADS_PER_DAY - 1, MAX_ADS_PER_DAY}

\* the tables after u1 has started MAX_ADS_PER_DAY ad sessions in one UTC day
\* and claimed the first c of them (postback, then claim)
InitDayWith(c) ==
    /\ sessions = [i \in 1..MAX_ADS_PER_DAY |->
                     [user |-> "u1", monetag_click_id |-> ClickId(i),
                      status |-> IF i <= c THEN "completed" ELSE "pending",
                      monetag_verified |-> i <= c]]
    /\ completions = [i \in 1..c |->
                        [user |-> "u1", ad_network_id |-> ClickId(i),
                         session |-> i, watched |-> TRUE]]
    /\ wallet = [u \in Users |->
                   IF u = "u1" /\ c > 0
                   THEN [exists |-> TRUE, balance |-> AD_REWARD * c,
                         lifetime_earned |-> AD_REWARD * c, lifetime_spent |-> 0]
                   ELSE NoWallet]
    /\ txlog = [i \in 1..c |->
                  [user |-> "u1", type |-> "ad_watched", coins_delta |-> AD_REWARD,
                   balance_after |-> AD_REWARD * i, reference_id |-> i,
                   session |-> i, desc |-> "ad"]]
    /\ proc = [p \in Procs |-> Idle("none", "none")]
    /\ served = 0
    /\ jobs = <<>>
    /\ events = {}
    /\ task = [t \in Tasks |-> NoTask]
    /\ registry = [d \in Deployments |-> [is_active |-> d = 1, deactivated_at |-> FALSE]]
    /\ cache = NoCache
    /\ streams = [s \in Streams |-> NoStream]
    /\ media = NoMedia
    /\ infer = NoInfer
    /\ route = NoRoute
    /\ finish = NoFinish
    /\ manager = NoManager

InitDay == \E c \in DayClaimed : InitDayWith(c)

\* POST /ads/start-session, all within that day
DayNext ==
    \E p \in Procs :
        \/ StartSession(p)
        \/ StartSessionInsert(p)

SpecDay == InitDay /\ [][DayNext]_vars

\* the tables after u1 has started MAX_ADS_PER_DAY + 1 ad sessions in one UTC
\* day before claiming any (each start found fewer than MAX_ADS_PER_DAY rows
\* in ad_completions), the postbacks of all of them have arrived, and the
\* first MAX_ADS_PER_DAY - 1 have been claimed
InitDayOpen ==
    LET c == MAX_ADS_PER_DAY - 1 IN
        /\ sessions = [i \in 1..(MAX_ADS_PER_DAY + 1) |->
                         [user |-> "u1", monetag_click_id |-> ClickId(i),
                          status |-> IF i <= c THEN "completed" ELSE "pending",
                          monetag_verified |-> TRUE]]
        /\ completions = [i \in 1..c |->
                            [user |-> "u1", ad_network_id |-> ClickId(i),
                             session |-> i, watched |-> TRUE]]
        /\ wallet = [u \in Users |->
                       IF u = "u1"
                       THEN [exists |-> TRUE, balance |-> AD_REWARD * c,
                             lifetime_earned |-> AD_REWARD * c, lifetime_spent |-> 0]
                       ELSE NoWallet]
        /\ txlog = [i \in 1..c |->
                      [user |-> "u1", type |-> "ad_watched", coins_delta |-> AD_REWARD,
                       balance_after |-> AD_REWARD * i, reference_id |-> i,
                       session |-> i, desc |-> "ad"]]
        /\ proc = [p \in Procs |-> Idle("none", "none")]
        /\ served = 0
        /\ jobs = <<>>
        /\ events = {}
        /\ task = [t \in Tasks |-> NoTask]
        /\ registry = [d \in Deployments |-> [is_active |-> d = 1, deactivated_at |-> FALSE]]
        /\ cache = NoCache
        /\ streams = [s \in Streams |-> NoStream]
        /\ media = NoMedia
        /\ infer = NoInfer
        /\ route = NoRoute
        /\ finish = NoFinish
        /\ manager = NoManager

\* POST /ads/claim-reward, all within that day
DayClaimNext ==
    \E p \in Procs :
        \/ ClaimRead(p)
        \/ ClaimUpdate(p)
        \/ ClaimRecord(p)
        \/ AwardBalance(p)
        \/ AwardEarned(p)
        \/ AwardUpdate(p)
        \/ AwardLog(p)

SpecDayClaim == InitDayOpen /\ [][DayClaimNext]_vars

\* the tables as in Init, and CloudinaryManager.__init__ on a pool of 1 to
\* MaxPool accounts
InitMedia ==
    /\ sessions = <<>>
    /\ completions = <<>>
    /\ wallet = [u \in Users |-> NoWallet]
    /\ txlog = <<>>
    /\ proc = [p \in Procs |-> Idle("none", "none")]
    /\ served = 0
    /\ jobs = <<>>
    /\ events = {}
    /\ task = [t \in Tasks |-> NoTask]
    /\ registry = [d \in Deployments |-> [is_active |-> d = 1, deactivated_at |-> FALSE]]
    /\ cache = NoCache
    /\ streams = [s \in Streams |-> NoStream]
    /\ \E n \in 1..MaxPool :
          media = [NoMedia EXCEPT !.accounts = n,
                                  !.usage = [a \in 0..(n - 1) |-> NoMedia.usage[0]]]
    /\ infer = NoInfer
    /\ route = NoRoute
    /\ finish = NoFinish
    /\ manager = NoManager

\* uploads through the media manager, one call at a time
MediaNext ==
    \/ UploadWithRetry
    \/ SelectBestAccount
    \/ UploadAttempt
    \/ UsageChanges

SpecMedia == InitMedia /\ [][MediaNext]_vars

\* the two parts of a job that talk to the outside: the inference request
\* and the upload to the media store
WorkerNext ==
    \/ InferStart
    \/ InferPost
    \/ MediaNext

SpecWorker == InitMedia /\ [][WorkerNext]_vars

\* a pending row with any declared type and model name, the tables as in Init
InitRoute ==
    /\ sessions = <<>>
    /\ completions = <<>>
    /\ wallet = [u \in Users |-> NoWallet]
    /\ txlog = <<>>
    /\ proc = [p \in Procs |-> Idle("none", "none")]
    /\ served = 0
    /\ jobs = <<>>
    /\ events = {}
    /\ task = [t \in Tasks |-> NoTask]
    /\ registry = [d \in Deployments |-> [is_active |-> d = 1, deactivated_at |-> FALSE]]
    /\ cache = NoCache
    /\ streams = [s \in Streams |-> NoStream]
    /\ media = NoMedia
    /\ infer = NoInfer
    /\ \E ty \in {"none", "image", "video"}, m \in ModelNames :
          route = [NoRoute EXCEPT !.job_type = ty, !.model = m]
    /\ finish = NoFinish
    /\ manager = NoManager

\* the job reaches the dispatcher through one of its entry points
RouteNext ==
    \/ RouteProcessJob
    \/ RouteBacklog
    \/ RouteRealtime

SpecRoute == InitRoute /\ [][RouteNext]_vars

\* process_image_job from the inference request to the completion request
FinishNext ==
    \/ InferStart
    \/ InferPost
    \/ FinishResponse
    \/ FinishUploadImage
    \/ FinishDownload
    \/ FinishUploadJson
    \/ FinishComplete

SpecFinish == Init /\ [][FinishNext]_vars

\* the ad endpoints over a row store whose calls can raise during a claim
ClaimFaultNext ==
    \/ AdsNext
    \/ \E p \in Procs :
          \/ ClaimRecordFault(p)
          \/ AwardReadFault(p)
          \/ AwardEarnedFault(p)
          \/ AwardUpdateFault(p)

SpecClaimFault == Init /\ [][ClaimFaultNext]_vars

\* POST /jobs over a row store whose reads of user_coins can raise
JobsFaultNext ==
    \/ JobsNext
    \/ \E p \in Procs :
          \/ JobsCreateFault(p)
          \/ JobsBalanceFault(p)
          \/ JobsNeededFault(p)

SpecJobsFault == Init /\ [][JobsFaultNext]_vars

\* ------------------------------------------------------------------ claims
AdAwards(s) ==
    {i \in DOMAIN txlog : txlog[i].type = "ad_watched" /\ txlog[i].session = s}

CompletionsOf(s) ==
    {i \in DOMAIN completions : completions[i].session = s}

Acts(p) == proc'[p] # proc[p]

\* C1: every ad_watched transaction of a user was preceded by an accepted
\* postback that set verified on an ad session of that user (verified is never
\* cleared, so such a session is still verified)
C1_AdWatchedOnlyAfterPostback ==
    \A i \in DOMAIN txlog :
        txlog[i].type = "ad_watched" =>
            \E s \in DOMAIN sessions :
                sessions[s].user = txlog[i].user /\ sessions[s].monetag_verified

\* C2: status = completed is terminal: no step changes the status of a
\* completed session
C2_CompletedIsTerminal ==
    [][\A s \in DOMAIN sessions :
          sessions[s].status = "completed" => sessions'[s].status = "completed"]_vars

\* C3: for every ad session at most one ad_completion row and at most one
\* ad_watched award are ever produced, whatever the interleaving of the claim
\* and verify-and-reward requests
C3_AtMostOneAwardPerSession ==
    \A s \in DOMAIN sessions :
        /\ Cardinality(CompletionsOf(s)) <= 1
        /\ Cardinality(AdAwards(s)) <= 1

\* C4: every ad session with status = completed has verified = true
C4_CompletedImpliesVerified ==
    \A s \in DOMAIN sessions :
        sessions[s].status = "completed" => sessions[s].monetag_verified

C4_Witness ==
    \E s \in DOMAIN sessions :
        /\ sessions[s].status = "completed"
        /\ AdAwards(s) # {}

C6_UnverifiedClaimRefused ==
    [][\A p \in Procs, u \in Users, sid \in DOMAIN sessions :
          (/\ CanBegin(p)
           /\ ClaimReadFor(p, u, sid)
           /\ sessions[sid].user = u
           /\ ~sessions[sid].monetag_verified)
              => /\ proc'[p].pc = "idle"
                 /\ proc'[p].result = "400_not_verified"
                 /\ UNCHANGED <<sessions, completions, wallet, txlog>>]_vars

C6_Witness ==
    \E p \in Procs :
        /\ proc[p].result = "400_not_verified"
        /\ \E s \in DOMAIN sessions : ~sessions[s].monetag_verified

PostbackRefusals ==
    {"400_missing_click_id", "403_invalid_signature", "400_invalid_zone_id"}

\* C7: no step of the postback receiver (request received, session updated,
\* unknown click recorded) changes a wallet row or the transaction log
C7_PostbackNeverAwards ==
    [][\A p \in Procs :
          (\/ /\ CanBegin(p)
              /\ served' = served + 1
              /\ \/ proc'[p].op = "postback"
                 \/ proc'[p].result \in PostbackRefusals
           \/ proc[p].pc \in {"pb_update", "pb_insert"} /\ Acts(p))
              => UNCHANGED <<wallet, txlog>>]_vars

C7_Witness ==
    /\ \E p \in Procs : proc[p].result = "200_postback"
    /\ \E s \in DOMAIN sessions : sessions[s].monetag_verified
    /\ \E i \in DOMAIN completions : ~completions[i].watched

\* C8: verified is set on a session only by the postback receiver, and, with a
\* signing secret configured, only by a postback that carried a valid
\* signature and a recognised zone
C8_VerifiedOnlyAfterValidation ==
    [][\A s \in DOMAIN sessions :
          (~sessions[s].monetag_verified /\ sessions'[s].monetag_verified)
              => \E p \in Procs :
                    /\ proc[p].pc = "pb_update"
                    /\ Acts(p)
                    /\ SecretConfigured => proc[p].sig = "valid"
                    /\ proc[p].zone = "known"]_vars

\* the sum of coins_delta over the administrative adjustments logged for u
RECURSIVE AdminDeltaUpTo(_, _)
AdminDeltaUpTo(u, n) ==
    IF n = 0 THEN 0
    ELSE AdminDeltaUpTo(u, n - 1)
         + (IF txlog[n].user = u /\ txlog[n].desc = "admin"
            THEN txlog[n].coins_delta ELSE 0)

\* C9: balance = lifetime_earned - lifetime_spent + the sum of the
\* administrative deltas, for every user in every reachable state
C9_BalanceIdentity ==
    \A u \in Users :
        wallet[u].balance
            = wallet[u].lifetime_earned - wallet[u].lifetime_spent
              + AdminDeltaUpTo(u, Len(txlog))

TxOf(u) == SelectSeq(txlog, LAMBDA r : r.user = u)

\* C11: whenever no ledger call is in progress, the transaction log of every
\* user is consistent with the wallet: each balance_after is the previous
\* balance_after (0 for the first row) plus the row's coins_delta, and the
\* latest balance_after is the wallet's balance.
C11_TxLogConsistent ==
    (\A p \in Procs : proc[p].pc = "idle") =>
        \A u \in Users :
            LET t == TxOf(u) IN
            /\ \A i \in 1..Len(t) :
                   t[i].balance_after =
                       (IF i = 1 THEN 0 ELSE t[i-1].balance_after) + t[i].coins_delta
            /\ Len(t) > 0 => t[Len(t)].balance_after = wallet[u].balance
            /\ Len(t) = 0 => wallet[u].balance = 0

\* C12: a storage error at any step of deduct_coins makes the call return
\* False and leaves the wallet row and the transaction log as they were
\* before the call (cur is the balance the call read at its first step).
C12_DeductFaultLeavesStateAlone ==
    [][\A p \in Procs :
          (proc'[p].op = "storage_error" /\ Acts(p)) =>
              /\ proc'[p].result = "false"
              /\ UNCHANGED <<wallet, txlog>>
              /\ proc[p].pc \in {"de_spent", "de_update", "de_log"} =>
                     wallet'[proc[p].user].balance = proc[p].cur]_vars


\* C13: POST /jobs by a user whose balance b is below GENERATION_COST answers
\* 402 insufficient_coins with coins_needed = GENERATION_COST - b, and no
\* step of the refused request inserts a job row or appends a transaction.
C13_InsufficientCoinsRefused ==
    [][\A p \in Procs :
          /\ (CanBegin(p) /\ proc'[p].op = "jobs"
                 /\ get_coin_balance(wallet[proc'[p].user]) < GENERATION_COST)
                => (proc'[p].pc = "jc_balance" /\ UNCHANGED <<jobs, txlog>>)
          /\ (proc[p].pc = "jc_balance" /\ Acts(p))
                => (proc'[p].pc = "jc_needed" /\ UNCHANGED <<jobs, txlog>>)
          /\ (proc[p].pc = "jc_needed" /\ Acts(p))
                => /\ proc'[p].result = "402_insufficient_coins"
                   /\ UNCHANGED <<jobs, txlog>>
                   /\ wallet[proc[p].user].balance < GENERATION_COST
                         => proc'[p].body =
                               GENERATION_COST - wallet[proc[p].user].balance]_vars

\* a user with 2 coins was refused and told that 3 more are needed
C13_Witness ==
    \E p \in Procs :
        /\ proc[p].result = "402_insufficient_coins"
        /\ proc[p].body = 3
        /\ \E u \in Users : wallet[u].balance = 2

\* the generation_used transactions that reference job id
JobCharges(id, log) ==
    {i \in DOMAIN log : /\ log[i].type = "generation_used"
                        /\ log[i].reference_id = id
                        /\ log[i].coins_delta = 0 - GENERATION_COST}

\* C14: when POST /jobs answers 201, the returned job exists and exactly one
\* generation_used transaction with coins_delta = -5 references its id.
C14_CreatedJobIsCharged ==
    [][\A p \in Procs :
          (proc'[p].result = "201_created" /\ Acts(p)) =>
              /\ proc'[p].body \in DOMAIN jobs'
              /\ Cardinality(JobCharges(proc'[p].body, txlog')) = 1]_vars

\* the order pending < running < {completed, failed, cancelled}
StatusRank(st) == CASE st = "pending" -> 0 [] st = "running" -> 1 [] OTHER -> 2

\* C15: the status of a job row only moves up in the order pending < running
\* < {completed, failed, cancelled}: no step moves a job from a terminal
\* status back to running or from one terminal status to another.
C15_StatusMonotonic ==
    [][\A j \in DOMAIN jobs :
          /\ StatusRank(jobs'[j].status) >= StatusRank(jobs[j].status)
          /\ StatusRank(jobs[j].status) = 2 => jobs'[j].status = jobs[j].status]_vars

\* the dispatcher threads that have sent, or are about to send, the inference
\* request for job j and have not finished with it
Processing(j) ==
    {t \in Tasks : task[t].job = j /\ task[t].pc \in {"generate", "upload", "complete"}}

\* C16: at any instant at most one dispatcher thread is processing a given
\* job: of the threads triggered for the same pending job only the one that
\* flipped it to running sends an inference request.
C16_OneWorkerPerJob ==
    \A j \in DOMAIN jobs : Cardinality(Processing(j)) <= 1

\* C17: a job with status completed has an output url.
C17_CompletedHasUrl ==
    \A j \in DOMAIN jobs : jobs[j].status = "completed" => jobs[j].has_url

\* a job was completed, and another completion request carries no url
C17_Witness ==
    /\ \E j \in DOMAIN jobs : jobs[j].status = "completed"
    /\ \E t \in Tasks : task[t].pc = "complete" /\ ~task[t].url

\* C18: a job that is running when its inference call failed with an endpoint
\* terminal error, the registry having rotated to a successor, is eventually
\* picked up again and completed.
C18_RecoveredAfterRotation ==
    \A j \in 1..MaxJobs :
        (/\ j \in DOMAIN jobs
         /\ jobs[j].status = "running"
         /\ \E t \in Tasks : task[t].job = j /\ task[t].pc = "fetch")
            ~> (j \in DOMAIN jobs /\ jobs[j].status = "completed")

\* a step of thread t in which an exception reaches the except block, or a
\* step of the except block itself
FailureStep(t) ==
    /\ task'[t] # task[t]
    /\ \/ task[t].pc \in {"mark_inactive", "invalidate", "next", "fetch"}
       \/ /\ task[t].pc \in {"generate", "upload"}
          /\ task'[t].pc \in {"mark_inactive", "pick"}

\* C19: the failure handler of the dispatcher, for any exception (terminal
\* for the endpoint or not, raised by the inference call or by the upload),
\* leaves the job rows as they are, and no dispatcher step moves a job to
\* failed.
C19_NeverFailsOnInfrastructure ==
    [][\A t \in Tasks :
          /\ FailureStep(t) => jobs' = jobs
          /\ task'[t] # task[t] =>
                \A j \in DOMAIN jobs :
                    jobs'[j].status = "failed" => jobs[j].status = "failed"]_vars

\* the except block ran to the retry of the pending jobs and the job it failed
\* on is still running
C19_Witness ==
    \E t \in Tasks :
        /\ task[t].pc = "fetch"
        /\ jobs[task[t].job].status = "running"

\* C20: GET /get-url never answers from its cache with the url of a
\* deployment that the dispatcher has marked inactive.
C20_NoDeactivatedUrlFromCache ==
    [][\A p \in Procs :
          (proc'[p].result = "200_url_cached" /\ Acts(p)) =>
              registry[proc'[p].body].is_active]_vars

Updates(seq) == SelectSeq(seq, LAMBDA e : e \notin {"connected", "error"})

\* C22: a client whose GET /jobs/<id>/stream was authorized receives an update
\* event for every status written to the job's row afterwards: as long as the
\* stream has not ended, the updates sent and those waiting on the queue are
\* the statuses written since the handler read the row.
C22_StreamSeesEveryTransition ==
    \A s \in Streams :
        streams[s].pc \in {"accepted", "open"} =>
            Updates(streams[s].sent \o streams[s].queue) = streams[s].due

\* C23: a sink is unsubscribed exactly once when its stream has ended,
\* whatever ended it, and not before; at most one update event with a
\* terminal status is sent, it is the last event and the stream is closed.
C23_UnsubscribedOnceOneFinalEvent ==
    \A s \in Streams :
        LET st == streams[s]
        IN /\ st.unsubscribed = (IF st.pc = "closed" THEN 1 ELSE 0)
           /\ \A i \in DOMAIN st.sent :
                 st.sent[i] \in Terminal => (i = Len(st.sent) /\ st.pc = "closed")

\* a stream ended by the update event of a terminal status, after another
\* update event
C23_Witness ==
    \E s \in Streams :
        /\ streams[s].pc = "closed"
        /\ Len(streams[s].sent) >= 3
        /\ streams[s].sent[Len(streams[s].sent)] \in Terminal

\* the ad sessions that u has started (all of them within the day)
SessionsToday(u) == Cardinality({i \in DOMAIN sessions : sessions[i].user = u})

\* C24: a POST /ads/start-session of a user who has already started
\* MAX_ADS_PER_DAY sessions in the day does not pass the daily limit check,
\* however many of those sessions were claimed.
C24_DailyLimitOnSessions ==
    [][\A p \in Procs :
          (proc[p].pc = "idle" /\ proc'[p].pc = "ss_insert") =>
              SessionsToday(proc'[p].user) < MAX_ADS_PER_DAY]_vars

\* the probe of the current account answers with exactly 20 GiB of bandwidth
\* used, bandwidth not being unlimited
AtThreshold ==
    LET usage == media.usage[media.current_account_index]
    IN usage.ok /\ usage.bandwidth_used = BANDWIDTH_THRESHOLD
                /\ ~usage.bandwidth_unlimited

\* the accounts other than the current one that rotate_to_next_account
\* would accept
OthersAvailable ==
    {a \in DOMAIN media.usage :
        a # media.current_account_index /\ Available(media.usage[a])}

C26_RaisesOnlyWhenPoolExhausted ==
    media.pc = "raised" => media.used = DOMAIN media.usage

\* C27: a call of upload_with_retry makes at most as many upload attempts as
\* the pool has accounts, it raises only after that many, it returns only
\* after an attempt, and current_account_index is an index of the pool.
C27_BoundedAttemptsIndexInRange ==
    /\ media.uploads <= media.accounts
    /\ media.attempt < media.accounts
    /\ media.pc = "raised" => media.uploads = media.accounts
    /\ media.pc = "returned" => media.uploads >= 1
    /\ media.current_account_index \in 0..(media.accounts - 1)

\* a call on a pool of several accounts has raised after its last attempt,
\* made on an account other than the first
C27_Witness ==
    /\ media.pc = "raised"
    /\ media.accounts >= 2
    /\ media.uploads = media.accounts
    /\ media.current_account_index # 0

\* a step in which thread t enters the dispatcher: the backlog scan or a
\* retry pass takes the next job of its list, or the change-feed callback
\* runs for the thread's job
EntryStep(t) ==
    /\ task'[t] # task[t]
    /\ task[t].pc \in {"off", "pick"}

\* C28: an entry point of the dispatcher that finds no active deployment
\* writes nothing: the job rows stay as they are, and the thread does not go
\* on to the progress update or to the inference request.
C28_NoEndpointNoWrite ==
    [][\A t \in Tasks :
          (EntryStep(t) /\ get_endpoint_url(registry) = 0) =>
              /\ jobs' = jobs
              /\ task'[t].pc \notin {"progress", "generate", "upload", "complete"}]_vars

\* the callback for a job returned without a deployment and the job is still
\* pending
C28_Witness ==
    \E j \in DOMAIN jobs :
        /\ jobs[j].status = "pending"
        /\ task[j].pc = "done"
        /\ j \notin events
        /\ get_endpoint_url(registry) = 0

\* the conditions the inference request is to be retried on
Retriable(r) == r \in {"5xx", "timeout", "connection_error", "404_stopped"}

\* C29: a POST of the inference request that comes back with a retriable
\* condition while attempts remain is followed by another attempt.
C29_RetriableIsRetried ==
    [][(infer.pc = "post" /\ infer' # infer
            /\ Retriable(infer'.last)
            /\ infer.attempt < inference_max_retries(infer.job_type) - 1) =>
           infer'.pc = "post"]_vars

\* C30: an image job makes at most 3 POSTs of the inference request and a
\* video job at most 1, and once the loop is left the job is at the upload
\* or in the failure handler.
C30_BoundedInferenceAttempts ==
    /\ infer.job_type = "image" => infer.posts <= 3
    /\ infer.job_type = "video" => infer.posts <= 1
    /\ infer.pc = "post" => infer.posts < inference_max_retries(infer.job_type)
    /\ infer.pc \in {"idle", "post", "upload", "failure"}
    /\ infer.pc = "upload" => infer.last = "200"
    /\ infer.pc = "failure" => infer.last \notin {"200", "none"}

\* an image job is in the failure handler after three POSTs
C30_Witness ==
    /\ infer.job_type = "image"
    /\ infer.pc = "failure"
    /\ infer.posts = 3

\* C31: on every entry point a job is handled as video iff its declared type
\* is video or its model name contains one of the video model substrings.
C31_SameClassificationEverywhere ==
    route.entry # "none" =>
        (route.handler = "video" <=>
            \/ route.job_type = "video"
            \/ \E vm \in video_models : Contains(lower(route.model), vm))

\* C32: a job of the image dispatcher is completed only after an upload to
\* the media store succeeded, and its image_url and thumbnail_url are then
\* the url the media store returned.
C32_CompletedOnlyWithCdnUrl ==
    finish.row.status = "completed" =>
        /\ finish.uploaded
        /\ finish.row.image_url = "cdn"
        /\ finish.row.thumbnail_url = "cdn"

\* the handlers that are serving a claim on session s
Claiming(s) ==
    {p \in Procs : proc[p].pc # "idle" /\ proc[p].op \in {"claim", "verify"}
                      /\ proc[p].sid = s}

\* C33: a claim is all-or-nothing: once no handler is serving a claim on it,
\* a session in status completed has its coins.
C33_ClaimAllOrNothing ==
    \A s \in DOMAIN sessions :
        (sessions[s].status = "completed" /\ Claiming(s) = {}) =>
            AdAwards(s) # {}

\* the handler p serves a POST /jobs whose balance check found the row store
\* unreachable
Unreachable(p) == proc[p].op = "jobs" /\ proc[p].desc = "unreachable"

\* C34: a POST /jobs whose balance check finds the row store unreachable is
\* answered with 500, not with 402 insufficient_coins, and changes no table.
C34_UnreachableStoreIs500 ==
    [][\A p \in Procs :
          (Acts(p) /\ (Unreachable(p) \/ Unreachable(p)')) =>
              /\ UNCHANGED <<sessions, completions, wallet, txlog, jobs>>
              /\ proc'[p].pc = "idle" => proc'[p].result = "500"]_vars

\* C35: no claim-reward or verify-and-reward call is accepted on a session
\* that the postback moved to failed, so no coins are awarded for it.
C35_FailedSessionNeverClaimed ==
    [][\A p \in Procs :
          (proc[p].pc = "idle" /\ proc'[p].op \in {"claim", "verify"}
              /\ proc'[p].pc = "cl_update") =>
              sessions[proc'[p].sid].status # "failed"]_vars

\* the ad_watched awards granted to u (all of them within the day)
AwardsToday(u) ==
    Cardinality({i \in DOMAIN txlog :
                    txlog[i].user = u /\ txlog[i].type = "ad_watched"})

\* C36: the number of ad_watched awards granted to a user in one UTC day
\* through the session flow never exceeds MAX_ADS_PER_DAY.
C36_AwardsWithinDailyLimit ==
    \A u \in Users : AwardsToday(u) <= MAX_ADS_PER_DAY

\* the sum of coins_delta over the first n transactions of the sequence t
RECURSIVE DeltaSum(_, _)
DeltaSum(t, n) == IF n = 0 THEN 0 ELSE DeltaSum(t, n - 1) + t[n].coins_delta

\* C37: no double spend: whenever no request is being served, the balance of
\* every wallet is its initial balance (0) plus the awards minus the
\* deductions that succeeded, each of which logged its transaction.
C37_NoDoubleSpend ==
    (\A p \in Procs : proc[p].pc = "idle") =>
        \A u \in Users :
            wallet[u].balance = DeltaSum(TxOf(u), Len(TxOf(u)))

\* C38: the url that GET /get-url?job_type=T returns is the url of the
\* endpoint for T, also when it comes from the cache.
C38_UrlMatchesJobType ==
    [][\A p \in Procs :
          (Acts(p) /\ proc'[p].result \in {"200_url", "200_url_cached"}) =>
              proc'[p].url_type = proc'[p].job_type]_vars

\* C39: the deployment that the failure handler of a job marks inactive is
\* the deployment the job was dispatched to.
C39_MarksOwnDeployment ==
    [][\A t \in Tasks :
          (task[t].pc = "mark_inactive" /\ task'[t].pc # "mark_inactive") =>
              \A d \in Deployments :
                  (registry[d].is_active /\ ~registry'[d].is_active) =>
                      d = task[t].dep]_vars

\* the thread has gone through its list of jobs
Returned(t) == task[t].pc \in {"off", "done", "listening"}

====
